---- MODULE Spec2Model ----
(***************************************************************************)
(* Odds tracking and notification pipeline: the Match table, the polling   *)
(* loop of odds_tracker.py (fetch_and_update_matches driven by             *)
(* run_continuous_tracking) and the notification loop of telegram_bot.py   *)
(* (get_matches_for_notification, send_notification,                       *)
(* mark_notification_sent).                                                *)
(*                                                                         *)
(* Conventions.  Decimal odds are integers in hundredths (1.50 is 150).    *)
(* Times are integer minutes.  NoneV is Python None / SQL NULL / a missing *)
(* key; BadV is a value that int() and float() reject with ValueError or   *)
(* TypeError (a non-numeric string); InfV is the float infinity, which     *)
(* json reads from a number such as 1e999 and on which int() raises        *)
(* OverflowError.  Strings the code parses are sequences of one-character  *)
(* strings.                                                                *)
(***************************************************************************)
EXTENDS Integers, Sequences, FiniteSets, TLC

NoneV == -1000
BadV == -2000
InfV == -3000
HugeV == -4000

\* ------------------------------------------------------------------------
\* Bounds of the model
\* ------------------------------------------------------------------------
MaxBatch == 1
MaxTime == 1
MaxProcessing == 90
\* inputs of the parsers: length of a score string, largest score, largest
\* elapsed minute, length of an outcome list
MaxLen == 3
MaxScore == 2
MaxMinute == 47
MaxEntries == 3

\* ------------------------------------------------------------------------
\* Program constants
\* ------------------------------------------------------------------------
monitored_sports == <<"tennis", "basketball", "handball">>
AllSports == {monitored_sports[k] : k \in 1..Len(monitored_sports)}
SENTINEL_ODDS == 99900
WINDOW_START_MIN == 25
WINDOW_END_MIN == 35
LIVE_START_OFFSET == 30
\* asyncio.sleep(60) after an exception in the loop, in minutes
ERROR_BACKOFF_MIN == 1
\* the same sleep in seconds
ERROR_SLEEP == 60
BB_HALF_LO == 22
BB_HALF_HI == 26
BB_Q4 == 46
HB_HALF_LO == 28
HB_HALF_HI == 32

\* ------------------------------------------------------------------------
\* Python string primitives used by the parsers
\* ------------------------------------------------------------------------
Digits == {"0", "1", "2", "3", "4", "5", "6", "7", "8", "9"}

DigitVal(c) ==
  CASE c = "0" -> 0 [] c = "1" -> 1 [] c = "2" -> 2 [] c = "3" -> 3
    [] c = "4" -> 4 [] c = "5" -> 5 [] c = "6" -> 6 [] c = "7" -> 7
    [] c = "8" -> 8 [] OTHER -> 9

Contains(s, c) == \E i \in 1..Len(s) : s[i] = c

IndexOf(s, c) == CHOOSE i \in 1..Len(s) : s[i] = c /\ \A j \in 1..(i - 1) : s[j] # c

\* str.split(sep, 1) when sep occurs in s
SplitFirst(s, c) ==
  LET i == IndexOf(s, c)
  IN  <<SubSeq(s, 1, i - 1), SubSeq(s, i + 1, Len(s))>>

RECURSIVE LStrip(_)
LStrip(s) == IF s # <<>> /\ Head(s) = " " THEN LStrip(Tail(s)) ELSE s

RECURSIVE RStrip(_)
RStrip(s) ==
  IF s # <<>> /\ s[Len(s)] = " " THEN RStrip(SubSeq(s, 1, Len(s) - 1)) ELSE s

\* str.strip()
Strip(s) == RStrip(LStrip(s))

\* str.split() with no argument: the maximal runs of non-blank characters
RECURSIVE SplitWs(_)
SplitWs(s) ==
  LET t == LStrip(s)
  IN  IF t = <<>> THEN <<>>
      ELSE LET n == IF Contains(t, " ") THEN IndexOf(t, " ") - 1 ELSE Len(t)
           IN  <<SubSeq(t, 1, n)>> \o SplitWs(SubSeq(t, n + 1, Len(t)))

\* int(s) succeeds: optional blanks, an optional minus sign, one or more digits
IsIntStr(s) ==
  LET t == Strip(s)
      b == IF t # <<>> /\ Head(t) = "-" THEN Tail(t) ELSE t
  IN  b # <<>> /\ \A i \in 1..Len(b) : b[i] \in Digits

RECURSIVE DigitsVal(_)
DigitsVal(b) ==
  IF b = <<>> THEN 0
  ELSE 10 * DigitsVal(SubSeq(b, 1, Len(b) - 1)) + DigitVal(b[Len(b)])

IntOfStr(s) ==
  LET t == Strip(s)
  IN  IF Head(t) = "-" THEN 0 - DigitsVal(Tail(t)) ELSE DigitsVal(t)

\* ------------------------------------------------------------------------
\* Payload values
\* ------------------------------------------------------------------------
\* the 'ss' field: a dict with home/away, a string, or anything else
ScoreDict(h, a) == [t |-> "dict", home |-> h, away |-> a, s |-> <<>>]
ScoreStr(chars) == [t |-> "str", home |-> NoneV, away |-> NoneV, s |-> chars]
ScoreOther == [t |-> "other", home |-> NoneV, away |-> NoneV, s |-> <<>>]
EmptyDict == ScoreDict(NoneV, NoneV)

\* the 'odds' field: a list of outcome entries; an entry is the price under
\* its 'odds' key, BadV when that value is not numeric, NoneV when the entry
\* has no 'odds' key.  The empty list stands for every falsy payload.
OddsList(entries) == [t |-> "list", v |-> entries]
NoOdds == OddsList(<<>>)

\* the 'odds' field as a nested dict: path is the key under 'sp' that holds
\* the outcome list ("to_win_match", "full_time_result" for any of the keys
\* of paths_to_try, "other" for any other key), v the entries of that list
OddsDict(path, entries) == [t |-> "dict", path |-> path, v |-> entries]

\* the outcome list of a market of paths_to_try whose entries carry a
\* header or name: tok[i] is "1", "2" or "X" when entry i names home, away
\* or draw that way, and "" when it carries no recognised token
OddsMarket(entries, tokens) ==
  [t |-> "dict", path |-> "full_time_result", v |-> entries, tok |-> tokens]
\* a dict payload without a known market path: root is a dict given as
\* [odds, kids], odds the entries of its 'odds' list (<<>> without the key)
\* and kids the dicts under its other keys, in key order
OddsTree(root) == [t |-> "dict", path |-> "other", v |-> <<>>, root |-> root]
Leaf(entries) == [odds |-> entries, kids |-> <<>>]
RECURSIVE Chain(_, _)
Chain(d, entries) ==
  IF d = 0 THEN Leaf(entries) ELSE [odds |-> <<>>, kids |-> <<Chain(d - 1, entries)>>]
TokensOf(odds_data) ==
  IF "tok" \in DOMAIN odds_data THEN odds_data.tok
  ELSE [i \in 1..Len(odds_data.v) |-> ""]

\* "if not odds": an empty list or dict
Falsy(odds_data) == odds_data.t = "list" /\ odds_data.v = <<>>

\* int(x) of a dict value guarded by "is not None" (None and missing give 0)
IntOk(v) == v # BadV
IntOr0(v) == IF v = NoneV THEN 0 ELSE v
\* int(x) raises OverflowError, which "except (ValueError, TypeError)" lets by
IntOverflows(v) == v = InfV

\* the outcome of a call that ends with an uncaught exception
Raised == <<"raised">>

\* "int(d.get('home', 0)) if d.get('home') is not None else 0" and the same
\* for 'away', in one try block: onBad is the handler's result
IntPair(home, away, onBad) ==
  IF ~IntOk(home) THEN onBad
  ELSE IF IntOverflows(home) THEN Raised
  ELSE IF ~IntOk(away) THEN onBad
  ELSE IF IntOverflows(away) THEN Raised
  ELSE <<IntOr0(home), IntOr0(away)>>

\* ------------------------------------------------------------------------
\* OddsTracker.parse_scores
\* ------------------------------------------------------------------------
parse_scores(scores_data) ==
  IF scores_data.t = "dict" THEN
    IntPair(scores_data.home, scores_data.away, <<0, 0>>)
  ELSE IF scores_data.t = "str" THEN
    LET s == scores_data.s
        parts ==
          IF Contains(s, "-") THEN SplitFirst(s, "-")
          ELSE IF Contains(s, ":") THEN SplitFirst(s, ":")
          ELSE IF Contains(s, " ") /\ Len(SplitWs(s)) = 2 THEN SplitWs(s)
          ELSE <<>>
    IN  IF parts = <<>> THEN <<0, 0>>
        ELSE IF IsIntStr(parts[1]) /\ IsIntStr(parts[2])
        THEN <<IntOfStr(parts[1]), IntOfStr(parts[2])>>
        ELSE <<0, 0>>
  ELSE <<0, 0>>

\* ------------------------------------------------------------------------
\* OddsTracker.get_pre_match_favorite
\* ------------------------------------------------------------------------
\* variant: equal odds resolve to home
get_pre_match_favorite_tieHome(home_odds, away_odds) ==
  IF home_odds <= away_odds THEN "home" ELSE "away"

get_pre_match_favorite(home_odds, away_odds) ==
  IF home_odds < away_odds THEN "home" ELSE "away"

\* ------------------------------------------------------------------------
\* OddsTracker.parse_match_time
\* ------------------------------------------------------------------------
\* passed_minutes: TM and TS are converted in one try block, so a bad TS
\* also resets the minutes to 0
PassedMinutes(TM, TS) ==
  IF IntOk(TM) /\ IntOk(TS) THEN IntOr0(TM) ELSE 0

\* int(TM), then int(TS): OverflowError is not handled
TimeRaises(TM, TS) == IntPair(TM, TS, <<0, 0>>) = Raised

TimeInfo(status, is_halftime) == [status |-> status, is_halftime |-> is_halftime]
TimeRaised == TimeInfo("raised", FALSE)

TennisSetsFromStr(s) ==
  LET parts ==
        IF Contains(s, "-") THEN SplitFirst(s, "-")
        ELSE IF Contains(s, ":") THEN SplitFirst(s, ":")
        ELSE <<<<"0">>, <<"0">>>>
  IN  IF IsIntStr(parts[1]) /\ IsIntStr(parts[2])
      THEN <<IntOfStr(parts[1]), IntOfStr(parts[2])>>
      ELSE <<0, 0>>

parse_match_time(sport, ss, TM, TS) ==
  LET passed_minutes == PassedMinutes(TM, TS)
  IN  IF TimeRaises(TM, TS) THEN TimeRaised
      ELSE IF sport = "tennis" THEN
        LET sets ==
              IF ss.t = "dict" THEN IntPair(ss.home, ss.away, <<0, 0>>)
              ELSE IF ss.t = "str" THEN TennisSetsFromStr(ss.s)
              ELSE <<0, 0>>
        IN  IF sets = Raised THEN TimeRaised
            ELSE IF sets[1] + sets[2] >= 1
            THEN TimeInfo("first_set_complete", TRUE)
            ELSE TimeInfo("first_half", FALSE)
      ELSE IF sport = "basketball" THEN
        IF BB_HALF_LO <= passed_minutes /\ passed_minutes <= BB_HALF_HI
          THEN TimeInfo("halftime", TRUE)
        ELSE IF passed_minutes > BB_HALF_HI /\ passed_minutes < BB_Q4
          THEN TimeInfo("third_quarter", FALSE)
        ELSE IF passed_minutes >= BB_Q4
          THEN TimeInfo("fourth_quarter", FALSE)
        ELSE TimeInfo("first_half", FALSE)
      ELSE IF sport = "handball" THEN
        IF HB_HALF_LO <= passed_minutes /\ passed_minutes <= HB_HALF_HI
          THEN TimeInfo("halftime", TRUE)
        ELSE IF passed_minutes > HB_HALF_HI
          THEN TimeInfo("second_half", FALSE)
        ELSE TimeInfo("first_half", FALSE)
      ELSE TimeInfo("first_half", FALSE)

\* ------------------------------------------------------------------------
\* OddsTracker.extract_odds_from_api_response
\* ------------------------------------------------------------------------
Odds3(h, a, d) == [home |-> h, away |-> a, draw |-> d]
NoOdds3 == Odds3(NoneV, NoneV, NoneV)
\* float() raised ValueError or TypeError inside the outer try block
OddsError == Odds3(BadV, BadV, BadV)

\* Strategy 1: main.sp.to_win_match.odds of a tennis payload
TennisStrategy(v) ==
  IF Len(v) >= 2
  THEN IF v[1] = BadV \/ v[2] = BadV THEN OddsError ELSE Odds3(v[1], v[2], NoneV)
  ELSE NoOdds3

\* variant: the position counts only for an entry without a token
OutcomeSide_tokenFirst(token, i) ==
  IF token = "1" THEN "home"
  ELSE IF token = "2" THEN "away"
  ELSE IF token = "X" THEN "draw"
  ELSE IF i = 1 THEN "home"
  ELSE IF i = 2 THEN "away"
  ELSE IF i = 3 THEN "draw"
  ELSE "none"

\* "if header == '1' or name.lower() in [...] or i == 0: ... elif header ==
\* '2' or ... or i == 1: ... elif header == 'X' or ... or i == 2: ...": the
\* side that entry i (counted from 1) of the outcome list is assigned to
OutcomeSide(token, i) ==
  IF token = "1" \/ i = 1 THEN "home"
  ELSE IF token = "2" \/ i = 2 THEN "away"
  ELSE IF token = "X" \/ i = 3 THEN "draw"
  ELSE "none"

\* the loop over the outcome list from entry i on: a price is converted
\* when its entry has a side, a later entry of a side replaces an earlier one
RECURSIVE OutcomeLoop(_, _, _, _)
OutcomeLoop(v, tok, i, got) ==
  IF i > Len(v) THEN got
  ELSE IF v[i] = NoneV \/ OutcomeSide(tok[i], i) = "none"
    THEN OutcomeLoop(v, tok, i + 1, got)
  ELSE IF v[i] = BadV THEN OddsError
  ELSE OutcomeLoop(v, tok, i + 1, [got EXCEPT ![OutcomeSide(tok[i], i)] = v[i]])

\* Strategy 2: the outcome list under one of paths_to_try
PathStrategy(v, tok) ==
  IF Len(v) >= 2 THEN OutcomeLoop(v, tok, 1, NoOdds3) ELSE NoOdds3

\* find_odds_recursive: the prices float() accepts, in document order
RECURSIVE FoundOdds(_)
FoundOdds(v) ==
  IF v = <<>> THEN <<>>
  ELSE (IF Head(v) \in {NoneV, BadV} THEN <<>> ELSE <<Head(v)>>) \o FoundOdds(Tail(v))

\* "if depth > 4: return []"
MAX_SCAN_DEPTH == 4

\* find_odds_recursive(data, depth): the prices of the 'odds' list of data,
\* then those of the dicts under its other keys, one level deeper
RECURSIVE find_odds_recursive(_, _), ScanKids(_, _, _)
find_odds_recursive(data, depth) ==
  IF depth > MAX_SCAN_DEPTH THEN <<>>
  ELSE FoundOdds(data.odds) \o ScanKids(data.kids, 1, depth + 1)
ScanKids(kids, k, depth) ==
  IF k > Len(kids) THEN <<>>
  ELSE find_odds_recursive(kids[k], depth) \o ScanKids(kids, k + 1, depth)

\* find_odds_recursive(odds_data): the outcome list of a market path lies
\* three levels below the root
ScanOf(odds_data) ==
  IF "root" \in DOMAIN odds_data THEN find_odds_recursive(odds_data.root, 0)
  ELSE FoundOdds(odds_data.v)

\* variant: the scan replaces what the first strategies found
FallbackStrategy_firstValues(got, found, sport) ==
  IF (got.home = NoneV \/ got.away = NoneV) /\ Len(found) >= 2
  THEN Odds3(found[1], found[2],
             IF sport = "tennis" THEN NoneV
             ELSE IF Len(found) > 2 THEN found[3] ELSE got.draw)
  ELSE got

\* Strategy 3: the fallback fills what the first strategies left None
FallbackStrategy(got, found, sport) ==
  IF (got.home = NoneV \/ got.away = NoneV) /\ Len(found) >= 2
  THEN Odds3(IF got.home = NoneV THEN found[1] ELSE got.home,
             IF got.away = NoneV THEN found[2] ELSE got.away,
             IF Len(found) > 2 /\ sport # "tennis" /\ got.draw = NoneV
             THEN found[3] ELSE got.draw)
  ELSE got

\* the first two strategies on a dict payload
DictStrategy(odds_data, sport) ==
  IF sport = "tennis" THEN
    IF odds_data.path = "to_win_match" THEN TennisStrategy(odds_data.v) ELSE NoOdds3
  ELSE IF sport \in {"basketball", "handball"} THEN
    IF odds_data.path = "full_time_result" THEN PathStrategy(odds_data.v, TokensOf(odds_data)) ELSE NoOdds3
  ELSE NoOdds3

\* variant: the third entry of a list is read for every sport
ListDraw_anySport(v, sport) == Len(v) > 2 /\ v[3] # NoneV

\* the list branch reads a third entry as the draw, except for tennis
ListDraw(v, sport) == Len(v) > 2 /\ v[3] # NoneV /\ sport # "tennis"

extract_odds_from_api_response(odds_data, sport) ==
  LET v == odds_data.v
  IN  IF odds_data.t = "list" /\ Len(v) >= 2 THEN
        LET useDraw == ListDraw(v, sport)
        IN  \* float() raising ValueError/TypeError discards all three values
            IF v[1] = BadV \/ v[2] = BadV \/ (useDraw /\ v[3] = BadV)
            THEN NoOdds3
            ELSE Odds3(v[1], v[2], IF useDraw THEN v[3] ELSE NoneV)
      ELSE IF odds_data.t = "dict" THEN
        IF DictStrategy(odds_data, sport) = OddsError THEN NoOdds3
        ELSE FallbackStrategy(DictStrategy(odds_data, sport), ScanOf(odds_data), sport)
      ELSE NoOdds3

\* float() of an integer too large for a float raises OverflowError, which
\* "except (ValueError, TypeError, KeyError)" does not catch: the exception
\* leaves the extractor. HugeV occurs in list payloads only; the entries
\* are converted in order, and a non-numeric one ends the function first
ExtractEscapes(odds_data, sport) ==
  /\ odds_data.t = "list" /\ Len(odds_data.v) >= 2
  /\ \/ odds_data.v[1] = HugeV
     \/ odds_data.v[1] # BadV /\ odds_data.v[2] = HugeV
     \/ /\ odds_data.v[1] # BadV /\ odds_data.v[2] # BadV
        /\ Len(odds_data.v) > 2 /\ sport # "tennis" /\ odds_data.v[3] = HugeV

\* ------------------------------------------------------------------------
\* OddsTracker.is_favorite_trailing
\* ------------------------------------------------------------------------
\* variant: a level score counts as trailing
FavoriteBehind_orLevel(favorite, home_score, away_score) ==
  IF favorite = "home" THEN home_score <= away_score ELSE away_score <= home_score

FavoriteBehind(favorite, home_score, away_score) ==
  IF favorite = "home" THEN home_score < away_score ELSE away_score < home_score

is_favorite_trailing(match, current_score) ==
  IF current_score.t = "dict" THEN
    \* ValueError and TypeError return False in the inner handler, any other
    \* exception in the outer one
    IF IntPair(current_score.home, current_score.away, Raised) = Raised THEN FALSE
    ELSE FavoriteBehind(match.pre_match_favorite,
                        IntOr0(current_score.home), IntOr0(current_score.away))
  ELSE IF current_score.t = "str" THEN
    LET p == parse_scores(current_score)
    IN  FavoriteBehind(match.pre_match_favorite, p[1], p[2])
  ELSE FALSE

\* ------------------------------------------------------------------------
\* The Match table (database.py) and the raw events of the two feeds
\* ------------------------------------------------------------------------
Users == {"u1", "u2"}
Kinds == {"match_start", "halftime_trailing"}

\* a raw event: id ("" when missing or falsy), odds payload, start time
\* (NoneV when missing or not ISO-parseable), whether the home/away/league
\* fields are objects, score payload and elapsed-time fields
Item(id, odds, time, names_ok, ss, TM, TS) ==
  [id |-> id, odds |-> odds, time |-> time, names_ok |-> names_ok,
   ss |-> ss, TM |-> TM, TS |-> TS]
NoItem == Item("", NoOdds, NoneV, TRUE, ScoreOther, NoneV, NoneV)

\* shorthands for the raw events of the bounded feeds, odds as a list
Up(id, entries, time, names_ok) ==
  Item(id, OddsList(entries), time, names_ok, ScoreOther, NoneV, NoneV)
In(id, entries, names_ok, ss, TM, TS) ==
  Item(id, OddsList(entries), NoneV, names_ok, ss, TM, TS)

\* The provider lists an event under its own sport only: t1 is a tennis
\* event, b1 a basketball event, h1 a handball event.  A run draws its feeds
\* from one scenario: one sport in depth, or all three sports side by side.
Scenarios == {"tennis", "basketball", "handball", "mixed"}
MaxFeed == 4

UpcomingFeed(scn, sport) ==
  IF scn = "tennis" /\ sport = "tennis" THEN
    << Up("t1", <<150, 260>>, 26, TRUE),
       Item("t1", OddsDict("to_win_match", <<260, 150, 300>>), 36, TRUE,
            ScoreOther, NoneV, NoneV) >>
  ELSE IF scn = "basketball" /\ sport = "basketball" THEN
    << Up("b1", <<150, 260>>, 26, TRUE),
       Up("b1", <<99900, 150>>, 26, TRUE),
       Up("b1", <<150, NoneV>>, 26, TRUE) >>
  ELSE IF scn = "handball" /\ sport = "handball" THEN
    << Item("h1", OddsDict("full_time_result", <<150, 260, 300>>), 26, TRUE,
            ScoreOther, NoneV, NoneV),
       Up("h1", <<150, 150>>, NoneV, TRUE),
       Up("h1", <<150, 150, BadV>>, 26, TRUE),
       Up("", <<150, 260>>, 26, TRUE) >>
  ELSE IF scn = "mixed" /\ sport = "tennis" THEN
    << Up("t1", <<150, 260>>, 26, TRUE) >>
  ELSE IF scn = "mixed" /\ sport = "handball" THEN
    << Up("h1", <<150, 260>>, 36, FALSE) >>
  ELSE IF scn = "duel" /\ sport = "tennis" THEN
    << Up("t1", <<150, 260>>, 26, TRUE) >>
  ELSE <<>>

InplayFeed(scn, sport) ==
  IF scn = "tennis" /\ sport = "tennis" THEN
    << In("t1", <<140, 280>>, TRUE, ScoreStr(<<"0", "-", "1">>), NoneV, NoneV),
       In("t1", <<130, 300, 350>>, TRUE, ScoreDict(0, 2), NoneV, NoneV),
       In("t1", <<150, 260>>, TRUE, ScoreStr(<<"1", " ", "0">>), 0, 0),
       In("t1", <<HugeV, 280>>, TRUE, ScoreDict(0, 2), NoneV, NoneV) >>
  ELSE IF scn = "basketball" /\ sport = "basketball" THEN
    << Item("b1", OddsDict("full_time_result", <<150, 260>>), NoneV, TRUE,
            ScoreDict(0, 1), 30, 0),
       In("b1", <<280, 140, 310>>, FALSE, ScoreDict(1, 0), 24, 0),
       In("b1", <<BadV, 150>>, TRUE, ScoreStr(<<"0", "-", "1">>), 24, 0),
       In("b1", <<150, 260>>, TRUE, ScoreDict(0, 1), InfV, 0) >>
  ELSE IF scn = "handball" /\ sport = "handball" THEN
    << In("h1", <<140, 280, 320>>, TRUE, ScoreStr(<<"0", "-", "1">>), 30, 0),
       In("h1", <<280, 140>>, TRUE, ScoreDict(1, 0), 30, BadV),
       In("h1", <<280, 140>>, TRUE, ScoreDict(1, 0), 40, 0),
       In("", <<140, 280>>, TRUE, ScoreOther, 30, 0) >>
  ELSE IF scn = "mixed" /\ sport = "basketball" THEN
    << In("b1", <<280, 140>>, TRUE, ScoreDict(1, 0), 24, 0) >>
  ELSE IF scn = "duel" /\ sport = "tennis" THEN
    << In("t1", <<140, 280>>, TRUE, ScoreStr(<<"0", "-", "1">>), NoneV, NoneV),
       In("t1", <<200, 200>>, TRUE, ScoreStr(<<"1", " ", "0">>), 0, 0) >>
  ELSE <<>>

\* "for sport in self.monitored_sports": the batch the loop works on after
\* the batch (idx, phase); a batch without items has no effect and is passed
\* over
RECURSIVE NextBatch(_, _, _)
NextBatch(scn, idx, phase) ==
  IF phase = "upcoming" THEN
    IF InplayFeed(scn, monitored_sports[idx]) # <<>>
    THEN [pc |-> "inplay", idx |-> idx]
    ELSE NextBatch(scn, idx, "inplay")
  ELSE IF idx = Len(monitored_sports) THEN [pc |-> "post", idx |-> idx]
  ELSE IF UpcomingFeed(scn, monitored_sports[idx + 1]) # <<>>
    THEN [pc |-> "upcoming", idx |-> idx + 1]
  ELSE NextBatch(scn, idx + 1, "upcoming")

FirstBatch(scn) ==
  IF UpcomingFeed(scn, monitored_sports[1]) # <<>>
  THEN [pc |-> "upcoming", idx |-> 1]
  ELSE NextBatch(scn, 1, "upcoming")

\* Match(...): a row of the matches table; columns not given at construction
\* take the column defaults of database.py
Match(id, event_id, sport, start_time, home_odds, away_odds, draw_odds, favorite, status, score, ht, trailing, start_sent, t) ==
  [id |-> id, event_id |-> event_id, sport |-> sport, start_time |-> start_time,
   pre_match_home_odds |-> home_odds, pre_match_away_odds |-> away_odds,
   pre_match_draw_odds |-> draw_odds, pre_match_favorite |-> favorite,
   status |-> status,
   current_score_home |-> score[1], current_score_away |-> score[2],
   halftime_home_odds |-> ht.home, halftime_away_odds |-> ht.away,
   halftime_draw_odds |-> ht.draw,
   start_notification_sent |-> start_sent,
   halftime_notification_sent |-> FALSE,
   favorite_trailing_at_halftime |-> trailing,
   updated_at |-> t]

VARIABLES
  scenario,    \* which feeds the provider serves in this run
  matches,     \* the matches table: a set of rows
  nextId,      \* next value of the primary-key sequence
  now,         \* the clock, in minutes
  pollPc,      \* position of the polling loop within a cycle
  sportIdx,    \* index into monitored_sports of the sport being processed
  budget,      \* items of the current batch not yet processed
  audience,    \* sports with at least one active entitled subscriber
  queue,       \* notification loop: selected (row id, kind) not yet sent
  inflight,    \* notification loop: dispatch done, mark_notification_sent due
  sentTo,      \* history: (row id, kind) -> passes that delivered to Tracked
  synth,       \* history: ids of the rows synthesized from in-play data
  adm,         \* the run of fetch_and_update_matches started by /force_update
  svc,         \* polling loop: the item in hand between its queries and commit
  call,        \* a call of one of the parsers: its arguments and its result
  running,     \* DataService.running
  logs,        \* ids of the rows that a notification_logs row refers to
  dirty,       \* the polling loop's session: rows as loaded (old) and with
               \* the assignments (new) that no commit or rollback has
               \* followed yet
  cycleUp,     \* history: the upcoming items the polling loop took in the
               \* current cycle for events that had no row, and their outcome
  last         \* history: the step that produced the current state

vars == <<scenario, matches, nextId, now, pollPc, sportIdx, budget, audience, queue,
          inflight, sentTo, synth, adm, svc, call, running, logs, cycleUp, dirty, last>>

pollVars == <<pollPc, sportIdx, budget, svc>>
notifVars == <<queue, inflight, sentTo>>

NoHand == [step |-> 0, i |-> 0, hit1 |-> {}, hit2 |-> {}]

\* a call that has not returned yet: done is false and out is not set
Call(fn, sport, favorite, ss, TM, TS, odds) ==
  [fn |-> fn, sport |-> sport, favorite |-> favorite, ss |-> ss, TM |-> TM,
   TS |-> TS, odds |-> odds, done |-> FALSE, out |-> FALSE]
NoCall == Call("none", "", "", ScoreOther, NoneV, NoneV, NoOdds)
Returned(c, out) == [c EXCEPT !.done = TRUE, !.out = out]

AdmIdle == [pc |-> "idle", sportIdx |-> 1, budget |-> 0, step |-> 0, i |-> 0,
            hit1 |-> {}, hit2 |-> {}]

\* took and slept: for a sleep of the polling loop, the seconds the cycle
\* had taken and the seconds slept
Last(op, sport, item, out, mid, kind) ==
  [op |-> op, sport |-> sport, item |-> item, out |-> out, mid |-> mid, kind |-> kind,
   took |-> 0, slept |-> 0, added |-> <<>>]

\* db.query(Match).filter_by(event_id=...).first(): the set of hits
Lookup(tbl, event_id) == {r \in tbl : r.event_id = event_id}
First(hits) == CHOOSE r \in hits : \A q \in hits : r.id <= q.id

\* variant: the event_id column is declared without unique=True
DbInsert_NoUnique(tbl, row, commitOk) == IF commitOk THEN tbl \cup {row} ELSE tbl

\* db.add(row); db.commit(): the row is stored unless the commit fails;
\* event_id is UNIQUE, so a second row with the same event_id always fails
DbInsert(tbl, row, commitOk) ==
  IF commitOk /\ ~(\E r \in tbl : r.event_id = row.event_id)
  THEN tbl \cup {row} ELSE tbl

\* variant: the assignments reach the table although the commit failed
DbUpdate_noRollback(tbl, old, new, commitOk, t) ==
  LET cur == {r \in tbl : r.id = old.id}
  IN  IF new # old /\ cur # {}
      THEN LET c == CHOOSE r \in cur : TRUE
               merged == [f \in DOMAIN c |->
                            IF new[f] # old[f] THEN new[f] ELSE c[f]]
           IN  (tbl \ {c}) \cup {[merged EXCEPT !.updated_at = t]}
      ELSE tbl

\* assignments to a loaded row (old: the row as loaded, new: after the
\* assignments) followed by db.commit() / db.rollback(). The UPDATE is only
\* emitted for a net change, writes the changed columns of the stored row
\* with that primary key, and refreshes updated_at (onupdate); it fails
\* when the row is gone
DbUpdate(tbl, old, new, commitOk, t) ==
  LET cur == {r \in tbl : r.id = old.id}
  IN  IF commitOk /\ new # old /\ cur # {}
      THEN LET c == CHOOSE r \in cur : TRUE
               merged == [f \in DOMAIN c |->
                            IF new[f] # old[f] THEN new[f] ELSE c[f]]
           IN  (tbl \ {c}) \cup {[merged EXCEPT !.updated_at = t]}
      ELSE tbl

\* the failed commit of an insert: the unique constraint on event_id
\* rejected the row, or the commit failed for another reason; both end in
\* the same handler (warning, rollback, next item)
InsertFailure(tbl, event_id) ==
  IF \E r \in tbl : r.event_id = event_id THEN "duplicate_key" ELSE "commit_failed"

Result(tbl, nid, out) == [matches |-> tbl, nextId |-> nid, out |-> out]

\* float(raw) if raw is not None else 999.0
OrSentinel(raw) == IF raw = NoneV THEN SENTINEL_ODDS ELSE raw

\* variant: the item is skipped only when both prices are the placeholder
MissingEssentialOdds_both(home_odds, away_odds) ==
  home_odds = SENTINEL_ODDS /\ away_odds = SENTINEL_ODDS

\* "if home_odds == 999.0 or away_odds == 999.0: continue"
MissingEssentialOdds(home_odds, away_odds) ==
  home_odds = SENTINEL_ODDS \/ away_odds = SENTINEL_ODDS

\* "existing_match = db.query(Match)...first()" / "if not existing_match:"
AlreadyTracked(hits) == hits # {}

\* ------------------------------------------------------------------------
\* fetch_and_update_matches: one item of the upcoming batch. hit1 and hit2
\* are the results of the two queries for the event id (existing_match,
\* existing_match_check), tbl the table when the commit is made
\* ------------------------------------------------------------------------
UpcomingResult(hit1, hit2, tbl, nid, sport, item, commitOk, t) ==
  IF item.id = "" THEN Result(tbl, nid, "no_id")
  ELSE IF AlreadyTracked(hit1) THEN Result(tbl, nid, "exists")
  ELSE IF Falsy(item.odds) THEN Result(tbl, nid, "no_odds")
  \* "except (ValueError, TypeError)" around the item lets the extractor's
  \* exception pass to the handler of fetch_and_update_matches
  ELSE IF ExtractEscapes(item.odds, sport) THEN Result(tbl, nid, "abort")
  ELSE
    LET raw == extract_odds_from_api_response(item.odds, sport)
        home_odds == OrSentinel(raw.home)
        away_odds == OrSentinel(raw.away)
        draw_odds == IF raw.draw # NoneV /\ sport # "tennis" THEN raw.draw ELSE NoneV
        favorite == get_pre_match_favorite(home_odds, away_odds)
        start_time == IF item.time = NoneV THEN t ELSE item.time
        again == hit2
    IN  IF raw.home = NoneV /\ raw.away = NoneV THEN Result(tbl, nid, "no_extract")
        ELSE IF MissingEssentialOdds(home_odds, away_odds)
          THEN Result(tbl, nid, "sentinel")
        ELSE IF again # {} THEN
          LET old == First(again)
              new == [old EXCEPT !.pre_match_home_odds = home_odds,
                                 !.pre_match_away_odds = away_odds,
                                 !.pre_match_draw_odds = draw_odds,
                                 !.pre_match_favorite = favorite,
                                 !.start_time = start_time,
                                 !.updated_at = t]
          IN  Result(DbUpdate(tbl, old, new, commitOk, t), nid,
                     IF commitOk THEN "refreshed" ELSE "commit_failed")
        ELSE IF ~item.names_ok THEN Result(tbl, nid, "abort")
        ELSE
          LET new_match == Match(nid, item.id, sport, start_time, home_odds,
                                 away_odds, draw_odds, favorite, "scheduled",
                                 <<0, 0>>, NoOdds3, FALSE, FALSE, t)
              tbl2 == DbInsert(tbl, new_match, commitOk)
          IN  IF tbl2 # tbl THEN Result(tbl2, nid + 1, "created")
              ELSE Result(tbl, nid, InsertFailure(tbl, item.id))

\* ------------------------------------------------------------------------
\* fetch_and_update_matches: one item of the in-play batch; hit1, hit2 and
\* tbl as for the upcoming batch
\* ------------------------------------------------------------------------
\* variant: the phase is not consulted
LiveTrailing_anyPhase(is_halftime, favorite, home_score, away_score) ==
  FavoriteBehind(favorite, home_score, away_score)

\* favorite_trailing of a row synthesized from in-play data
LiveTrailing(is_halftime, favorite, home_score, away_score) ==
  is_halftime /\ FavoriteBehind(favorite, home_score, away_score)

\* scores = match_data.get('ss', {}); anything but a dict or str becomes {}
ScoresOf(item) == IF item.ss.t \in {"dict", "str"} THEN item.ss ELSE EmptyDict

\* "if self.is_favorite_trailing(match, scores):
\*      match.favorite_trailing_at_halftime = True"
TrailingAfter(match, trailing_now) ==
  IF trailing_now THEN TRUE ELSE match.favorite_trailing_at_halftime

\* "if home_live_odds is not None: match.halftime_home_odds = float(...)"
SnapshotOdds(stored, live_odds) == IF live_odds # NoneV THEN live_odds ELSE stored

\* parse_match_time or parse_scores ends with an exception: the handler
\* around the in-play item logs it and goes on with the next item
ItemRaises(sport, item) ==
  \/ parse_match_time(sport, item.ss, item.TM, item.TS) = TimeRaised
  \/ parse_scores(ScoresOf(item)) = Raised

\* variant: an observation outside the break closes the row
RowStatus_finishing(time_info) ==
  IF time_info.is_halftime THEN "halftime" ELSE "finished"

\* "if time_info['is_halftime']: match.status = 'halftime' ... elif
\* time_info['status'] == 'second_half': match.status = 'live' else:
\* match.status = 'live'"
RowStatus(time_info) ==
  IF time_info.is_halftime THEN "halftime" ELSE "live"

\* variant: the observation replaces the scores and leaves the status
InplayUpdated_scoresOnly(match, sport, item) ==
  LET sc == parse_scores(ScoresOf(item))
  IN  [match EXCEPT !.current_score_home = sc[1], !.current_score_away = sc[2]]

\* variant: the observation marks the row as already live, the way a row
\* synthesized from in-play data is marked
InplayUpdated_asSynthesized(match, sport, item) ==
  [InplayUpdated_scoresOnly(match, sport, item)
     EXCEPT !.status = "live", !.start_notification_sent = TRUE]

\* the row after "match.current_score_home = ...", "match.status =
\* 'halftime'" and "match.favorite_trailing_at_halftime = True"
InplayAssigned(match, sport, item) ==
  LET sc == parse_scores(ScoresOf(item))
  IN  [match EXCEPT !.current_score_home = sc[1], !.current_score_away = sc[2],
                    !.status = "halftime", !.favorite_trailing_at_halftime = TRUE]

\* the extractor's exception is raised after these assignments and passes
\* "except (ValueError, TypeError)" around the snapshot
PartwayRaises(match, sport, item) ==
  /\ parse_match_time(sport, item.ss, item.TM, item.TS).is_halftime
  /\ is_favorite_trailing([match EXCEPT !.status = "halftime"], ScoresOf(item))
  /\ ~Falsy(item.odds)
  /\ ExtractEscapes(item.odds, sport)

\* variant: the handler of the item rolls the session back
ItemErrorLeaves_rollback(assigned) == {}

\* "except Exception as e: logger.error(...) ... continue" neither commits
\* nor rolls back: the assigned row stays in the session
ItemErrorLeaves(assigned) == {assigned}

\* the assignments made to an existing row by an in-play observation
InplayUpdated(match, sport, item) ==
  LET time_info == parse_match_time(sport, item.ss, item.TM, item.TS)
      scores == ScoresOf(item)
      sc == parse_scores(scores)
      m1 == [match EXCEPT !.current_score_home = sc[1],
                          !.current_score_away = sc[2]]
  IN  IF time_info.is_halftime THEN
        LET m2 == [m1 EXCEPT !.status = RowStatus(time_info)]
            trailing_now == is_favorite_trailing(m2, scores)
            m3 == [m2 EXCEPT !.favorite_trailing_at_halftime =
                                 TrailingAfter(m2, trailing_now)]
            live == IF ~Falsy(item.odds)
                    THEN extract_odds_from_api_response(item.odds, sport)
                    ELSE NoOdds3
        IN  IF trailing_now THEN
              [m3 EXCEPT
                 !.halftime_home_odds = SnapshotOdds(@, live.home),
                 !.halftime_away_odds = SnapshotOdds(@, live.away),
                 !.halftime_draw_odds =
                    IF sport # "tennis" THEN SnapshotOdds(@, live.draw) ELSE @]
            ELSE m3
      ELSE [m1 EXCEPT !.status = RowStatus(time_info)]

InplayResult(hit1, hit2, tbl, nid, sport, item, commitOk, t) ==
  IF item.id = "" THEN Result(tbl, nid, "no_id")
  ELSE IF hit1 # {} THEN
    IF ItemRaises(sport, item) THEN Result(tbl, nid, "error")
    ELSE IF PartwayRaises(First(hit1), sport, item)
      THEN [matches |-> tbl, nextId |-> nid, out |-> "error_partway",
            pending |-> ItemErrorLeaves(InplayAssigned(First(hit1), sport, item))]
    ELSE Result(DbUpdate(tbl, First(hit1), InplayUpdated(First(hit1), sport, item),
                         commitOk, t),
                nid, IF commitOk THEN "updated" ELSE "commit_failed")
  ELSE IF Falsy(item.odds) THEN Result(tbl, nid, "no_odds")
  \* no row has been touched: "except Exception as e: ... continue"
  ELSE IF ExtractEscapes(item.odds, sport) THEN Result(tbl, nid, "error")
  ELSE
    LET raw == extract_odds_from_api_response(item.odds, sport)
        home_odds == OrSentinel(raw.home)
        away_odds == OrSentinel(raw.away)
        draw_odds == IF raw.draw # NoneV /\ sport # "tennis" THEN raw.draw ELSE NoneV
        favorite == get_pre_match_favorite(home_odds, away_odds)
        scores == ScoresOf(item)
        sc == parse_scores(scores)
        time_info == parse_match_time(sport, item.ss, item.TM, item.TS)
        status == RowStatus(time_info)
        favorite_trailing ==
          LiveTrailing(time_info.is_halftime, favorite, sc[1], sc[2])
        ht == Odds3(home_odds, away_odds, draw_odds)
        again == hit2
    IN  IF raw.home = NoneV \/ raw.away = NoneV THEN Result(tbl, nid, "no_extract")
        ELSE IF MissingEssentialOdds(home_odds, away_odds)
          THEN Result(tbl, nid, "sentinel")
        ELSE IF ~item.names_ok THEN Result(tbl, nid, "bad_names")
        ELSE IF ItemRaises(sport, item) THEN Result(tbl, nid, "error")
        ELSE IF again # {} THEN
          LET old == First(again)
              new == [old EXCEPT !.status = status,
                                 !.current_score_home = sc[1],
                                 !.current_score_away = sc[2],
                                 !.favorite_trailing_at_halftime = favorite_trailing,
                                 !.halftime_home_odds = home_odds,
                                 !.halftime_away_odds = away_odds,
                                 !.halftime_draw_odds = draw_odds,
                                 !.updated_at = t]
          IN  Result(DbUpdate(tbl, old, new, commitOk, t), nid,
                     IF commitOk THEN "updated" ELSE "commit_failed")
        ELSE
          LET new_match == Match(nid, item.id, sport, t - LIVE_START_OFFSET,
                                 home_odds, away_odds, draw_odds, favorite,
                                 status, sc, ht, favorite_trailing, TRUE, t)
              tbl2 == DbInsert(tbl, new_match, commitOk)
          IN  IF tbl2 # tbl THEN Result(tbl2, nid + 1, "created")
              ELSE Result(tbl, nid, InsertFailure(tbl, item.id))

\* ------------------------------------------------------------------------
\* cleanup_old_matches
\* ------------------------------------------------------------------------
RETENTION_MIN == 1440
FinishedStatuses == {"finished", "completed", "cancelled"}

cleanup_old_matches(tbl, t) ==
  {r \in tbl : ~(r.updated_at < t - RETENTION_MIN /\ r.status \in FinishedStatuses)}

\* ------------------------------------------------------------------------
\* get_matches_for_notification / mark_notification_sent
\* ------------------------------------------------------------------------
\* the rows of the first query: scheduled, not yet notified, start_time
\* within the window
StartCandidates(tbl, t) ==
  {r \in tbl : /\ r.status = "scheduled"
               /\ r.start_time >= t + WINDOW_START_MIN
               /\ r.start_time <= t + WINDOW_END_MIN
               /\ r.start_notification_sent = FALSE}

\* "time_to_start = match.start_time - datetime.now(UTC)", reached for a
\* candidate whose sport has an active subscriber: start_time is a DateTime
\* column without timezone, so the loaded value is naive, and subtracting an
\* aware datetime from it raises TypeError. Nothing in
\* get_matches_for_notification catches it
StartRaises(tbl, t, aud) == \E r \in StartCandidates(tbl, t) : r.sport \in aud

\* the rows that pass every test of the match_start part
StartingMatches(tbl, t, aud) ==
  {r \in tbl : /\ r.status = "scheduled"
               /\ r.start_time >= t + WINDOW_START_MIN
               /\ r.start_time <= t + WINDOW_END_MIN
               /\ r.start_notification_sent = FALSE
               /\ r.sport \in aud
               /\ WINDOW_START_MIN <= r.start_time - t
               /\ r.start_time - t <= WINDOW_END_MIN}

HalftimeMatches(tbl, aud) ==
  {r \in tbl : /\ r.status = "halftime"
               /\ r.favorite_trailing_at_halftime = TRUE
               /\ r.halftime_notification_sent = FALSE
               /\ r.sport \in aud}

\* the rows of a result list, in primary-key order
RECURSIVE RowSeq(_, _)
RowSeq(rows, kind) ==
  IF rows = {} THEN <<>>
  ELSE LET r == First(rows)
       IN  <<[id |-> r.id, sport |-> r.sport, kind |-> kind]>>
             \o RowSeq(rows \ {r}, kind)

\* the result lists; the call ends with the TypeError instead when
\* StartRaises, which the notification loop catches and logs
get_matches_for_notification(tbl, t, aud) ==
  IF StartRaises(tbl, t, aud) THEN <<>>
  ELSE RowSeq(StartingMatches(tbl, t, aud), "match_start")
         \o RowSeq(HalftimeMatches(tbl, aud), "halftime_trailing")

\* variant: marking one kind clears the flag of the other kind
mark_notification_sent_exclusive(tbl, match_id, notification_type, commitOk) ==
  {IF r.id = match_id /\ commitOk
   THEN [r EXCEPT
           !.start_notification_sent = (notification_type = "match_start"),
           !.halftime_notification_sent = (notification_type = "halftime_trailing")]
   ELSE r : r \in tbl}

mark_notification_sent(tbl, match_id, notification_type, commitOk) ==
  {IF r.id = match_id /\ commitOk
   THEN IF notification_type = "match_start"
          THEN [r EXCEPT !.start_notification_sent = TRUE]
        ELSE IF notification_type = "halftime_trailing"
          THEN [r EXCEPT !.halftime_notification_sent = TRUE]
        ELSE r
   ELSE r : r \in tbl}

\* _get_subscribed_users
Recipients(sport, aud) == IF sport \in aud THEN Users ELSE {}

\* the sports some active subscription covers; handball has no audience
EntitledSports == {"tennis", "basketball"}

\* ------------------------------------------------------------------------
\* Initial state
\* ------------------------------------------------------------------------
InitFrame(scenarios) ==
  /\ scenario \in scenarios
  /\ matches = {}
  /\ nextId = 1
  /\ now = 0
  /\ pollPc = FirstBatch(scenario).pc
  /\ sportIdx = FirstBatch(scenario).idx
  /\ budget = MaxBatch
  /\ audience = EntitledSports
  /\ queue = <<>>
  /\ inflight = FALSE
  /\ sentTo = [once |-> {}, twice |-> {}]
  /\ synth = {}
  /\ adm = AdmIdle
  /\ svc = NoHand
  /\ running = TRUE
  /\ logs = {}
  /\ cycleUp = {}
  /\ dirty = {}
  /\ last = Last("init", "", NoItem, "", 0, "")

InitWith(scenarios) == InitFrame(scenarios) /\ call = NoCall

Init == InitWith(Scenarios)

RowIdOf(tbl, event_id) ==
  IF Lookup(tbl, event_id) = {} THEN 0 ELSE First(Lookup(tbl, event_id)).id

\* ------------------------------------------------------------------------
\* Polling loop: run_continuous_tracking / fetch_and_update_matches
\* ------------------------------------------------------------------------
SvcSport == monitored_sports[sportIdx]
SvcFeed == IF pollPc = "upcoming" THEN UpcomingFeed(scenario, SvcSport)
           ELSE InplayFeed(scenario, SvcSport)

\* variant: the items of the sport stay in hand after the failed fetch
Fetched_stale(ok) == MaxBatch

\* "if not isinstance(..., list): ... = []" / "except Exception: ... = []":
\* the number of items the loop over the fetched list may take
Fetched(ok) == IF ok THEN MaxBatch ELSE 0

\* one item of either batch, given the results of its two queries
ItemResult(phase, hit1, hit2, tbl, nid, sport, item, commitOk, t) ==
  IF phase = "upcoming"
  THEN UpcomingResult(hit1, hit2, tbl, nid, sport, item, commitOk, t)
  ELSE InplayResult(hit1, hit2, tbl, nid, sport, item, commitOk, t)

\* the rows as the polling loop's session holds them: a row with pending
\* assignments is the object that carries them (autoflush is off, and a
\* query returns the object of the identity map)
SessionRows(tbl, pending) ==
  {r \in tbl : ~\E d \in pending : d.old.id = r.id}
    \cup {d.new : d \in {e \in pending : \E r \in tbl : r.id = e.old.id}}

\* the flush of a commit: the UPDATE of a pending row writes the columns
\* its assignments changed and refreshes updated_at
Flushed(tbl, pending, t) ==
  {IF \E d \in pending : d.old.id = r.id
   THEN LET d == CHOOSE e \in pending : e.old.id = r.id
        IN  [[f \in DOMAIN r |-> IF d.new[f] # d.old[f] THEN d.new[f] ELSE r[f]]
               EXCEPT !.updated_at = t]
   ELSE r : r \in tbl}

\* the session after an item left the row `assigned` behind: the row keeps
\* the values it was loaded with as the base of its UPDATE
Pending(tbl, pending, assigned) ==
  {d \in pending : d.old.id # assigned.id}
    \cup {[old |-> IF \E d \in pending : d.old.id = assigned.id
                   THEN (CHOOSE d \in pending : d.old.id = assigned.id).old
                   ELSE CHOOSE r \in tbl : r.id = assigned.id,
           new |-> assigned]}

\* the outcomes of an item that end with a successful db.commit(), and those
\* that end with db.rollback()
CommittedOuts == {"created", "refreshed", "updated"}
RolledBackOuts == {"commit_failed", "duplicate_key", "abort"}

\* db.rollback() after a failed commit or an escaped exception: what the
\* flush of the session had written goes with the item's own statement; tbl
\* is the table as the item's commit left it
RolledBack(stored, pending, tbl) == IF pending = {} THEN tbl ELSE stored

\* the effect of an item's result on the table and the polling loop; res
\* has been computed on the rows of the session and on the table as the
\* flush of its commit leaves it
SvcApply(sport, item, res) ==
  /\ matches' = IF res.out \in CommittedOuts THEN res.matches
              ELSE IF res.out \in RolledBackOuts
              THEN RolledBack(matches, dirty, res.matches)
              ELSE matches
  /\ dirty' = IF res.out = "error_partway"
              THEN IF res.pending = {} THEN {}
                   ELSE Pending(matches, dirty, CHOOSE e \in res.pending : TRUE)
              ELSE IF res.out \in CommittedOuts \cup RolledBackOuts THEN {}
              ELSE dirty
  /\ nextId' = res.nextId
  /\ synth' = IF pollPc = "inplay" /\ res.out = "created"
                 THEN synth \cup {nextId} ELSE synth
  /\ last' = Last(pollPc, sport, item, res.out, RowIdOf(res.matches, item.id), "")
  /\ cycleUp' = IF pollPc = "upcoming" /\ item.id # "" /\ Lookup(matches, item.id) = {}
                THEN cycleUp \cup {[item |-> item, out |-> res.out]}
                ELSE cycleUp
  \* an AttributeError escapes the per-item handler: the outer handler
  \* of fetch_and_update_matches ends the cycle
  /\ IF res.out = "abort"
       THEN pollPc' = "post" /\ budget' = 0 /\ UNCHANGED sportIdx
       ELSE budget' = budget - 1 /\ UNCHANGED <<pollPc, sportIdx>>

UpcomingItem(i, commitOk) ==
  /\ pollPc = "upcoming"
  /\ svc.step = 0
  /\ budget > 0
  /\ i \in 1..Len(SvcFeed)
  /\ SvcApply(SvcSport, SvcFeed[i],
              ItemResult("upcoming", Lookup(SessionRows(matches, dirty), SvcFeed[i].id),
                         Lookup(SessionRows(matches, dirty), SvcFeed[i].id),
                         Flushed(matches, dirty, now), nextId, SvcSport,
                         SvcFeed[i], commitOk, now))
  /\ UNCHANGED <<scenario, call, running, logs, now, audience, queue, inflight, sentTo, adm, svc>>

UpcomingEnd ==
  /\ pollPc = "upcoming"
  /\ svc.step = 0
  /\ pollPc' = NextBatch(scenario, sportIdx, "upcoming").pc
  /\ sportIdx' = NextBatch(scenario, sportIdx, "upcoming").idx
  /\ budget' = IF pollPc' = "post" THEN 0 ELSE Fetched(TRUE)
  /\ last' = Last("upcoming_end", monitored_sports[sportIdx], NoItem, "", 0, "")
  /\ UNCHANGED <<scenario, call, running, cycleUp, dirty, logs, matches, nextId, now, audience, queue, inflight, sentTo, synth, adm, svc>>

InplayItem(i, commitOk) ==
  /\ pollPc = "inplay"
  /\ svc.step = 0
  /\ budget > 0
  /\ i \in 1..Len(SvcFeed)
  /\ SvcApply(SvcSport, SvcFeed[i],
              ItemResult("inplay", Lookup(SessionRows(matches, dirty), SvcFeed[i].id),
                         Lookup(SessionRows(matches, dirty), SvcFeed[i].id),
                         Flushed(matches, dirty, now), nextId, SvcSport,
                         SvcFeed[i], commitOk, now))
  /\ UNCHANGED <<scenario, call, running, logs, now, audience, queue, inflight, sentTo, adm, svc>>

\* the loop over the in-play list has ended: "Final commit for any
\* remaining operations", with db.rollback() when it fails
InplayEnd ==
  /\ pollPc = "inplay"
  /\ svc.step = 0
  /\ pollPc' = NextBatch(scenario, sportIdx, "inplay").pc
  /\ sportIdx' = NextBatch(scenario, sportIdx, "inplay").idx
  /\ budget' = IF pollPc' = "post" THEN 0 ELSE Fetched(TRUE)
  /\ \E commitOk \in BOOLEAN :
       /\ matches' = IF commitOk THEN Flushed(matches, dirty, now) ELSE matches
       /\ last' = Last("inplay_end", monitored_sports[sportIdx], NoItem,
                       IF dirty = {} THEN ""
                       ELSE IF commitOk THEN "flushed" ELSE "rolled_back", 0, "")
  /\ dirty' = {}
  /\ UNCHANGED <<scenario, call, running, cycleUp, logs, nextId, now, audience, queue, inflight, sentTo, synth, adm, svc>>

\* get_featured_games / get_inplay_events raises (raised) or returns an
\* error-shaped response that is no list: the list is replaced by [] and the
\* loop over it has nothing to do
FetchFail(raised) ==
  /\ pollPc \in {"upcoming", "inplay"}
  /\ svc.step = 0
  /\ budget = MaxBatch
  /\ budget' = Fetched(FALSE)
  /\ last' = Last("fetch_failed", SvcSport, NoItem,
                  IF raised THEN "raised" ELSE "not_list", 0, pollPc)
  /\ UNCHANGED <<scenario, call, running, cycleUp, dirty, logs, matches, nextId, now, pollPc, sportIdx, audience, queue, inflight, sentTo, synth, adm, svc>>

\* variant: the loop ends with the exception
AfterError_stop == "stopped"

\* "except Exception as e: ... await asyncio.sleep(60)" inside "while True"
AfterError == "backoff"

\* the cycle is at its first statement
AtCycleStart ==
  /\ pollPc = FirstBatch(scenario).pc
  /\ sportIdx = FirstBatch(scenario).idx
  /\ budget = MaxBatch
  /\ svc.step = 0

\* an exception reaches the handler of run_continuous_tracking: SessionLocal()
\* or the status query before fetch_and_update_matches, or the live-count
\* query after it, fails. Nothing has been written by the failing statement
CycleError ==
  /\ AtCycleStart \/ pollPc \in {"post", "sleep"}
  /\ pollPc' = AfterError
  /\ budget' = 0
  /\ last' = Last("cycle_error", "", NoItem, "", 0, pollPc)
  /\ UNCHANGED <<scenario, call, running, cycleUp, dirty, logs, matches, nextId, now, sportIdx, audience, queue, inflight, sentTo, synth, adm, svc>>

\* asyncio.sleep(60) in the handler, then the next iteration of the loop;
\* the clock stops at MaxTime
Backoff ==
  /\ pollPc = "backoff"
  /\ now' = IF now + ERROR_BACKOFF_MIN <= MaxTime
            THEN now + ERROR_BACKOFF_MIN ELSE MaxTime
  /\ pollPc' = FirstBatch(scenario).pc
  /\ sportIdx' = FirstBatch(scenario).idx
  /\ budget' = MaxBatch
  /\ last' = [Last("backoff", "", NoItem, "", 0, "") EXCEPT !.slept = ERROR_SLEEP]
  /\ cycleUp' = {}
  /\ dirty' = {}
  /\ UNCHANGED <<scenario, call, running, logs, matches, nextId, audience, queue, inflight, sentTo, synth, adm, svc>>

\* DataService._signal_handler, installed for SIGINT and SIGTERM in place of
\* the interpreter's handlers: it logs and clears DataService.running. The
\* polling loop is "while True" and does not read the flag
StopSignals == {"SIGINT", "SIGTERM"}
Signal(signum) ==
  /\ running' = FALSE
  /\ last' = Last("signal", "", NoItem, signum, 0, pollPc)
  /\ UNCHANGED <<scenario, call, logs, cycleUp, dirty, matches, nextId, now, pollPc, sportIdx, budget, audience, queue, inflight, sentTo, synth, adm, svc>>

\* DataService.shutdown runs in the "finally" of DataService.start, after
\* run_continuous_tracking has returned or raised; the loop has no return
\* or break and its handler catches Exception, so no step of the loop
\* leads there
InShutdown == pollPc = "shutdown"

\* notification_logs.match_id is a foreign key to matches.id without
\* ON DELETE and no relationship cascades to it: PostgreSQL, the configured
\* database, rejects the DELETE of a row that a log row refers to
ForeignKeyViolation(deleted, logged) == \E r \in deleted : r.id \in logged

\* the cleanup_counter reaches 40 after this cycle. The deletes are
\* committed together; a failing commit is rolled back inside
\* cleanup_old_matches and nothing is deleted
Cleanup(commitOk) ==
  /\ pollPc = "post"
  /\ ForeignKeyViolation(matches \ cleanup_old_matches(matches, now), logs)
       => ~commitOk
  /\ matches' = IF commitOk THEN cleanup_old_matches(matches, now) ELSE matches
  /\ pollPc' = "sleep"
  /\ last' = Last("cleanup", "", NoItem,
                  IF cleanup_old_matches(matches, now) = matches THEN "nothing"
                  ELSE IF commitOk THEN "cleaned" ELSE "commit_failed", 0, "")
  /\ UNCHANGED <<scenario, call, running, cycleUp, dirty, logs, nextId, now, sportIdx, budget, audience, queue, inflight, sentTo, synth, adm, svc>>

\* "sleep_time = 15" with a live or halftime row, "sleep_time = 60" without
FAST_SLEEP == 15
SLOW_SLEEP == 60
sleep_time(tbl) ==
  IF Cardinality({r \in tbl : r.status \in {"live", "halftime"}}) > 0
  THEN FAST_SLEEP ELSE SLOW_SLEEP

\* variant: the remaining time is slept as it is
actual_sleep_noFloor(base, processing_time) == base - processing_time

\* "actual_sleep = max(1, sleep_time - processing_time)"
MIN_SLEEP == 1
actual_sleep(base, processing_time) ==
  IF MIN_SLEEP >= base - processing_time THEN MIN_SLEEP ELSE base - processing_time

\* the seconds a cycle may have taken when its sleep is computed: none,
\* about either interval, more than both
ProcessingTimes ==
  {0, FAST_SLEEP - 1, FAST_SLEEP, SLOW_SLEEP - 1, SLOW_SLEEP, MaxProcessing}

\* asyncio.sleep, then the next cycle starts; the clock may pass a minute
Sleep(dt) ==
  /\ pollPc \in {"post", "sleep"}
  /\ now + dt <= MaxTime
  /\ now' = now + dt
  /\ pollPc' = FirstBatch(scenario).pc
  /\ sportIdx' = FirstBatch(scenario).idx
  /\ budget' = MaxBatch
  /\ \E processing_time \in ProcessingTimes :
       last' = [Last("sleep", "", NoItem, "", 0, "")
                  EXCEPT !.took = processing_time,
                         !.slept = actual_sleep(sleep_time(matches), processing_time)]
  /\ cycleUp' = {}
  /\ dirty' = {}
  /\ UNCHANGED <<scenario, call, running, logs, matches, nextId, audience, queue, inflight, sentTo, synth, adm, svc>>

\* ------------------------------------------------------------------------
\* Notification loop: notification_loop / send_notification
\* ------------------------------------------------------------------------
NotifSelect ==
  /\ queue = <<>>
  /\ queue' = get_matches_for_notification(matches, now, audience)
  /\ last' = Last("select", "", NoItem,
                  IF StartRaises(matches, now, audience) THEN "raised" ELSE "returned",
                  0, "")
  /\ UNCHANGED <<scenario, call, running, cycleUp, dirty, logs, matches, nextId, now, pollVars, audience, inflight, sentTo, synth, adm, svc>>

\* Recipients are interchangeable; the history records the deliveries to
\* one of them: the (row, kind) pairs delivered in one pass, and in two or more
Tracked == "u1"
Bump(st, pairs) ==
  [once |-> st.once \cup pairs, twice |-> st.twice \cup (st.once \cap pairs)]

\* send_notification up to the NotificationLog commit: early is an error
\* raised before any message goes out, delivered the users whose send_message
\* succeeded, logOk whether the log row commits
\* NotificationLog(match_id=..., notification_type=..., content={...,
\* 'sent_count': ..., 'failed_count': ...}, success=sent_count > 0)
NotificationLog(h, delivered, target_users) ==
  [match_id |-> h.id, notification_type |-> h.kind,
   sent_count |-> Cardinality(delivered),
   failed_count |-> Cardinality(target_users \ delivered),
   success |-> Cardinality(delivered) > 0]

Dispatch(early, delivered, logOk) ==
  /\ queue # <<>>
  /\ ~inflight
  /\ LET h == Head(queue)
     IN  /\ delivered \subseteq Recipients(h.sport, audience)
         /\ early => (delivered = {} /\ ~logOk)
         /\ sentTo' = Bump(sentTo, IF Tracked \in delivered
                                      THEN {<<h.id, h.kind>>} ELSE {})
         /\ IF logOk
              THEN inflight' = TRUE /\ UNCHANGED queue
              ELSE queue' = Tail(queue) /\ UNCHANGED inflight
         /\ logs' = IF logOk THEN logs \cup {h.id} ELSE logs
         /\ last' = [Last("dispatch", h.sport, NoItem,
                          IF early THEN "raised_early"
                          ELSE IF logOk THEN "logged" ELSE "log_failed",
                          h.id, h.kind)
                       EXCEPT !.added =
                         IF logOk
                         THEN <<NotificationLog(h, delivered, Recipients(h.sport, audience))>>
                         ELSE <<>>]
  /\ UNCHANGED <<scenario, call, running, cycleUp, dirty, matches, nextId, now, pollVars, audience, synth, adm, svc>>

\* send_notification from mark_notification_sent on
MarkSent(commitOk) ==
  /\ inflight
  /\ LET h == Head(queue)
     IN  /\ matches' = mark_notification_sent(matches, h.id, h.kind, commitOk)
         /\ last' = Last("mark", h.sport, NoItem,
                         IF commitOk THEN "marked" ELSE "commit_failed",
                         h.id, h.kind)
  /\ queue' = Tail(queue)
  /\ inflight' = FALSE
  /\ UNCHANGED <<scenario, call, running, cycleUp, dirty, logs, nextId, now, pollVars, audience, sentTo, synth, adm, svc>>

\* ------------------------------------------------------------------------
\* The polling loop's item at statement granularity, for runs that overlap
\* with another writer: first query for the event id, second query, commit
\* ------------------------------------------------------------------------
SvcFirst(i) ==
  /\ pollPc \in {"upcoming", "inplay"}
  /\ svc.step = 0
  /\ budget > 0
  /\ i \in 1..Len(SvcFeed)
  /\ svc' = [step |-> 1, i |-> i, hit1 |-> Lookup(matches, SvcFeed[i].id),
             hit2 |-> {}]
  /\ last' = Last("svc_first", SvcSport, SvcFeed[i], "", 0, "")
  /\ UNCHANGED <<scenario, call, running, cycleUp, dirty, logs, matches, nextId, now, pollPc, sportIdx, budget, audience,
                 notifVars, synth, adm>>

SvcSecond ==
  /\ svc.step = 1
  /\ svc' = [svc EXCEPT !.step = 2,
                        !.hit2 = IF svc.hit1 = {}
                                 THEN Lookup(matches, SvcFeed[svc.i].id) ELSE {}]
  /\ last' = Last("svc_second", SvcSport, SvcFeed[svc.i], "", 0, "")
  /\ UNCHANGED <<scenario, call, running, cycleUp, dirty, logs, matches, nextId, now, pollPc, sportIdx, budget, audience,
                 notifVars, synth, adm>>

SvcWrite(commitOk) ==
  /\ svc.step = 2
  /\ SvcApply(SvcSport, SvcFeed[svc.i],
              ItemResult(pollPc, svc.hit1, svc.hit2, matches, nextId, SvcSport,
                         SvcFeed[svc.i], commitOk, now))
  /\ svc' = NoHand
  /\ UNCHANGED <<scenario, call, running, logs, now, audience, notifVars, adm>>

\* ------------------------------------------------------------------------
\* admin_force_update: a second run of fetch_and_update_matches, made by the
\* bot process while the data service polls. Each item takes three steps:
\* the first query for the event id, the second query, and the commit
\* ------------------------------------------------------------------------
AdmSport == monitored_sports[adm.sportIdx]
AdmFeed == IF adm.pc = "upcoming" THEN UpcomingFeed(scenario, AdmSport)
           ELSE InplayFeed(scenario, AdmSport)

AdmStart ==
  /\ adm.pc = "idle"
  /\ adm' = [AdmIdle EXCEPT !.pc = FirstBatch(scenario).pc,
                            !.sportIdx = FirstBatch(scenario).idx,
                            !.budget = MaxBatch]
  /\ last' = Last("adm_start", "", NoItem, "", 0, "")
  /\ UNCHANGED <<scenario, call, running, cycleUp, dirty, logs, matches, nextId, now, pollVars, audience, notifVars, synth>>

AdmFirst(i) ==
  /\ adm.pc \in {"upcoming", "inplay"}
  /\ adm.step = 0
  /\ adm.budget > 0
  /\ i \in 1..Len(AdmFeed)
  /\ adm' = [adm EXCEPT !.step = 1, !.i = i,
                        !.hit1 = Lookup(matches, AdmFeed[i].id)]
  /\ last' = Last("adm_first", AdmSport, AdmFeed[i], "", 0, "")
  /\ UNCHANGED <<scenario, call, running, cycleUp, dirty, logs, matches, nextId, now, pollVars, audience, notifVars, synth>>

AdmSecond ==
  /\ adm.step = 1
  /\ adm' = [adm EXCEPT !.step = 2,
                        !.hit2 = IF adm.hit1 = {}
                                 THEN Lookup(matches, AdmFeed[adm.i].id) ELSE {}]
  /\ last' = Last("adm_second", AdmSport, AdmFeed[adm.i], "", 0, "")
  /\ UNCHANGED <<scenario, call, running, cycleUp, dirty, logs, matches, nextId, now, pollVars, audience, notifVars, synth>>

\* variant: a rejected insert ends the forced run
AdmApply_abortOnDuplicate(sport, item, res) ==
  /\ matches' = res.matches
  /\ nextId' = res.nextId
  /\ synth' = IF adm.pc = "inplay" /\ res.out = "created"
                 THEN synth \cup {nextId} ELSE synth
  /\ adm' = IF res.out \in {"abort", "duplicate_key"} THEN AdmIdle
            ELSE [adm EXCEPT !.step = 0, !.i = 0, !.budget = @ - 1,
                             !.hit1 = {}, !.hit2 = {}]
  /\ last' = Last(adm.pc, sport, item, res.out, RowIdOf(res.matches, item.id), "")

\* the effect of an item's result on the table and the forced run
AdmApply(sport, item, res) ==
  /\ matches' = res.matches
  /\ nextId' = res.nextId
  /\ synth' = IF adm.pc = "inplay" /\ res.out = "created"
                 THEN synth \cup {nextId} ELSE synth
  /\ adm' = IF res.out = "abort" THEN AdmIdle
            ELSE [adm EXCEPT !.step = 0, !.i = 0, !.budget = @ - 1,
                             !.hit1 = {}, !.hit2 = {}]
  /\ last' = Last(adm.pc, sport, item, res.out, RowIdOf(res.matches, item.id), "")

AdmWrite(commitOk) ==
  /\ adm.step = 2
  /\ AdmApply(AdmSport, AdmFeed[adm.i],
              ItemResult(adm.pc, adm.hit1, adm.hit2, matches, nextId, AdmSport,
                         AdmFeed[adm.i], commitOk, now))
  /\ UNCHANGED <<scenario, call, running, cycleUp, dirty, logs, now, pollVars, audience, notifVars>>

AdmBatchEnd ==
  /\ adm.pc \in {"upcoming", "inplay"}
  /\ adm.step = 0
  /\ adm' = IF NextBatch(scenario, adm.sportIdx, adm.pc).pc = "post" THEN AdmIdle
            ELSE [adm EXCEPT !.pc = NextBatch(scenario, adm.sportIdx, adm.pc).pc,
                             !.sportIdx = NextBatch(scenario, adm.sportIdx, adm.pc).idx,
                             !.budget = MaxBatch]
  /\ last' = Last("adm_end", AdmSport, NoItem, "", 0, "")
  /\ UNCHANGED <<scenario, call, running, cycleUp, dirty, logs, matches, nextId, now, pollVars, audience, notifVars, synth>>

Next ==
  \/ \E i \in 1..MaxFeed, commitOk \in BOOLEAN : UpcomingItem(i, commitOk)
  \/ UpcomingEnd
  \/ \E i \in 1..MaxFeed, commitOk \in BOOLEAN : InplayItem(i, commitOk)
  \/ InplayEnd
  \/ \E raised \in BOOLEAN : FetchFail(raised)
  \/ CycleError
  \/ Backoff
  \/ \E commitOk \in BOOLEAN : Cleanup(commitOk)
  \/ \E dt \in {0, 1} : Sleep(dt)
  \/ NotifSelect
  \/ \E early \in BOOLEAN, delivered \in SUBSET Users, logOk \in BOOLEAN :
       Dispatch(early, delivered, logOk)
  \/ \E commitOk \in BOOLEAN : MarkSent(commitOk)

Spec == Init /\ [][Next]_vars

\* the polling loop is one asyncio task that the event loop keeps running:
\* the loop over a fetched list comes to its end, and a sleep returns
LoopFairness ==
  /\ WF_vars(UpcomingEnd)
  /\ WF_vars(InplayEnd)
  /\ WF_vars(\E dt \in {0, 1} : Sleep(dt))
  /\ WF_vars(Backoff)

SpecLive == Init /\ [][Next]_vars /\ LoopFairness

\* the notification loop is one asyncio task of the bot, "while True" with
\* a sleep of at most 20 s and a handler that catches Exception: its
\* selection, each send_notification and each mark_notification_sent are
\* taken when they are due
NotifyFairness ==
  /\ WF_vars(NotifSelect)
  /\ WF_vars(\E early \in BOOLEAN, delivered \in SUBSET Users, logOk \in BOOLEAN :
               Dispatch(early, delivered, logOk))
  /\ WF_vars(\E commitOk \in BOOLEAN : MarkSent(commitOk))

SpecNotify == Init /\ [][Next]_vars /\ LoopFairness /\ NotifyFairness

\* the service started on a table that holds rows of earlier runs, among
\* them rows in a final status: one row for each status, updated long ago,
\* and finished rows updated around the retention horizon
StoredRow(id, event_id, status, updated_at) ==
  [Match(id, event_id, "tennis", updated_at, 150, 260, NoneV, "home",
         status, <<0, 0>>, NoOdds3, FALSE, TRUE, updated_at)
     EXCEPT !.halftime_notification_sent = TRUE]

StoredRows ==
  { StoredRow(1, "o1", "finished", 0 - RETENTION_MIN - 1),
    StoredRow(2, "o2", "finished", 0 - RETENTION_MIN),
    StoredRow(3, "o3", "finished", 0 - RETENTION_MIN + 1),
    StoredRow(4, "o4", "completed", 0 - RETENTION_MIN - 1),
    StoredRow(5, "o5", "cancelled", 0 - RETENTION_MIN - 1),
    StoredRow(6, "o6", "scheduled", 0 - RETENTION_MIN - 1),
    StoredRow(7, "o7", "live", 0 - RETENTION_MIN - 1),
    StoredRow(8, "o8", "halftime", 0 - RETENTION_MIN - 1) }

StoredTables == {{}, StoredRows} \cup {{r} : r \in StoredRows}

\* no stored row was notified, or the first one was
StoredLogs == {{}, {1}}

InitCleanup ==
  /\ scenario = "mixed"
  /\ matches \in StoredTables
  /\ nextId = Cardinality(StoredRows) + 1
  /\ now = 0
  /\ pollPc = FirstBatch(scenario).pc
  /\ sportIdx = FirstBatch(scenario).idx
  /\ budget = MaxBatch
  /\ audience = EntitledSports
  /\ queue = <<>>
  /\ inflight = FALSE
  /\ sentTo = [once |-> {}, twice |-> {}]
  /\ synth = {}
  /\ adm = AdmIdle
  /\ svc = NoHand
  /\ running = TRUE
  /\ logs \in StoredLogs
  /\ cycleUp = {}
  /\ dirty = {}
  /\ call = NoCall
  /\ last = Last("init", "", NoItem, "", 0, "")

SpecCleanup == InitCleanup /\ [][Next]_vars

\* the data service process: the polling loop and the signals it receives
ServiceScenarios == {"mixed"}
InitService == InitWith(ServiceScenarios)

NextService ==
  \/ \E i \in 1..MaxFeed, commitOk \in BOOLEAN : UpcomingItem(i, commitOk)
  \/ UpcomingEnd
  \/ \E i \in 1..MaxFeed, commitOk \in BOOLEAN : InplayItem(i, commitOk)
  \/ InplayEnd
  \/ \E raised \in BOOLEAN : FetchFail(raised)
  \/ CycleError
  \/ Backoff
  \/ \E commitOk \in BOOLEAN : Cleanup(commitOk)
  \/ \E dt \in {0, 1} : Sleep(dt)
  \/ \E signum \in StopSignals : Signal(signum)

SpecService == InitService /\ [][NextService]_vars /\ LoopFairness

\* requests.get(url, params=params) in get_featured_games and
\* get_inplay_events carries no timeout: the call, made in the loop's own
\* thread, returns when the provider answers or the connection fails, and
\* not before. svc.step = 3: the loop is inside the call
InFetch == svc.step = 3

FetchRequest ==
  /\ pollPc \in {"upcoming", "inplay"}
  /\ svc.step = 0
  /\ budget = MaxBatch
  /\ last.op # "fetched"
  /\ svc' = [NoHand EXCEPT !.step = 3]
  /\ last' = Last("fetch_request", SvcSport, NoItem, "", 0, pollPc)
  /\ UNCHANGED <<scenario, call, running, cycleUp, dirty, logs, matches, nextId, now, pollPc, sportIdx, budget, audience, queue, inflight, sentTo, synth, adm>>

\* the provider answers: with a list, with something that is no list, or
\* the connection fails and requests raises
FetchAnswers == {"list", "not_list", "raised"}
FetchAnswer(answer) ==
  /\ InFetch
  /\ svc' = NoHand
  /\ budget' = Fetched(answer = "list")
  /\ last' = Last(IF answer = "list" THEN "fetched" ELSE "fetch_failed",
                  SvcSport, NoItem, answer, 0, pollPc)
  /\ UNCHANGED <<scenario, call, running, cycleUp, dirty, logs, matches, nextId, now, pollPc, sportIdx, audience, queue, inflight, sentTo, synth, adm>>

\* the polling loop with its requests to the provider. The loop's own
\* steps are fair; whether and when the provider answers is not in the
\* loop's hands
NextFetch ==
  \/ \E i \in 1..MaxFeed, commitOk \in BOOLEAN : UpcomingItem(i, commitOk)
  \/ UpcomingEnd
  \/ \E i \in 1..MaxFeed, commitOk \in BOOLEAN : InplayItem(i, commitOk)
  \/ InplayEnd
  \/ FetchRequest
  \/ \E answer \in FetchAnswers : FetchAnswer(answer)
  \/ CycleError
  \/ Backoff
  \/ \E commitOk \in BOOLEAN : Cleanup(commitOk)
  \/ \E dt \in {0, 1} : Sleep(dt)

SpecFetch == InitService /\ [][NextFetch]_vars /\ LoopFairness

\* the data service polling while an administrator forces updates
RaceScenarios == {"duel", "mixed"}
InitRace == InitWith(RaceScenarios)

NextRace ==
  \/ \E i \in 1..MaxFeed : SvcFirst(i)
  \/ SvcSecond
  \/ \E commitOk \in BOOLEAN : SvcWrite(commitOk)
  \/ UpcomingEnd
  \/ InplayEnd
  \/ \E commitOk \in BOOLEAN : Cleanup(commitOk)
  \/ \E dt \in {0, 1} : Sleep(dt)
  \/ AdmStart
  \/ \E i \in 1..MaxFeed : AdmFirst(i)
  \/ AdmSecond
  \/ \E commitOk \in BOOLEAN : AdmWrite(commitOk)
  \/ AdmBatchEnd

SpecRace == InitRace /\ [][NextRace]_vars

\* ------------------------------------------------------------------------
\* The parsers on their own: one call with arguments from the bounded sets
\* ------------------------------------------------------------------------
ScoreChars == {"0", "1", "2", "-", ":", " ", "x"}

RECURSIVE Strings(_)
Strings(n) ==
  IF n = 0 THEN {<<>>}
  ELSE Strings(n - 1) \cup {Append(w, c) : w \in Strings(n - 1), c \in ScoreChars}

FieldValues == {NoneV, BadV, InfV} \cup (0..MaxScore)
ScoreInputs ==
  {ScoreDict(h, a) : h \in FieldValues, a \in FieldValues}
    \cup {ScoreStr(w) : w \in Strings(MaxLen)} \cup {ScoreOther}

MinuteValues == {NoneV, BadV, InfV} \cup (0..MaxMinute)
SecondValues == {NoneV, BadV, InfV, 0}

Prices == {NoneV, BadV, 150, 260, 300}
RECURSIVE EntryLists(_)
EntryLists(n) ==
  IF n = 0 THEN {<<>>}
  ELSE EntryLists(n - 1) \cup {Append(w, c) : w \in EntryLists(n - 1), c \in Prices}

OddsPaths == {"to_win_match", "full_time_result", "other"}
Tokens == {"", "1", "2", "X"}
MarketInputs ==
  {OddsMarket(w, k) : w \in {<<150, 260>>, <<150, 260, 300>>, <<150, NoneV, 300>>},
                      k \in [1..2 -> Tokens] \cup [1..3 -> Tokens]}
MaxDepth == 5
TreeInputs ==
  {OddsTree(Chain(d, w)) :
     d \in 0..MaxDepth, w \in {<<150>>, <<150, 260>>, <<BadV, 150, 260>>, <<150, 260, 300>>}}
    \cup {OddsTree([odds |-> <<150>>, kids |-> <<Leaf(<<260, 300>>)>>]),
          OddsTree([odds |-> <<>>,
                    kids |-> <<Chain(MAX_SCAN_DEPTH, <<150>>), Leaf(<<260, 300>>)>>]),
          OddsTree([odds |-> <<>>,
                    kids |-> <<Chain(MAX_SCAN_DEPTH - 1, <<150>>), Leaf(<<260, 300>>)>>])}
OddsInputs ==
  {OddsList(w) : w \in EntryLists(MaxEntries)}
    \cup {OddsDict(pth, w) : pth \in OddsPaths, w \in EntryLists(MaxEntries)}
    \cup {od \in MarketInputs : Len(od.v) = Len(od.tok)}
    \cup TreeInputs

callFrame == <<scenario, matches, nextId, now, pollPc, sportIdx, budget, audience,
               queue, inflight, sentTo, synth, adm, svc, running, logs, cycleUp, dirty, last>>

\* the tennis branch of parse_match_time is called with every score and a
\* few elapsed times, the other branches with every elapsed time and a few
\* scores
CallInputs ==
  {Call("parse_scores", "", "", ss, NoneV, NoneV, NoOdds) : ss \in ScoreInputs}
    \cup {Call("is_favorite_trailing", "", favorite, ss, NoneV, NoneV, NoOdds) :
             favorite \in {"home", "away"}, ss \in ScoreInputs}
    \cup {Call("parse_match_time", "tennis", "", ss, TM, TS, NoOdds) :
             ss \in ScoreInputs, TM \in {NoneV, BadV, InfV, 0, BB_HALF_LO},
             TS \in {NoneV, 0}}
    \cup {Call("parse_match_time", sport, "", ss, TM, TS, NoOdds) :
             sport \in AllSports \ {"tennis"}, ss \in {ScoreOther, ScoreDict(1, 0)},
             TM \in MinuteValues, TS \in SecondValues}
    \cup {Call("extract_odds_from_api_response", sport, "", ScoreOther, NoneV,
                NoneV, odds) : odds \in OddsInputs, sport \in AllSports}

CallParseScores ==
  /\ call.fn = "parse_scores" /\ ~call.done
  /\ call' = Returned(call, parse_scores(call.ss))
  /\ UNCHANGED callFrame

CallIsFavoriteTrailing ==
  /\ call.fn = "is_favorite_trailing" /\ ~call.done
  /\ call' = Returned(call, is_favorite_trailing(
                               [pre_match_favorite |-> call.favorite], call.ss))
  /\ UNCHANGED callFrame

CallParseMatchTime ==
  /\ call.fn = "parse_match_time" /\ ~call.done
  /\ call' = Returned(call, parse_match_time(call.sport, call.ss, call.TM, call.TS))
  /\ UNCHANGED callFrame

CallExtractOdds ==
  /\ call.fn = "extract_odds_from_api_response" /\ ~call.done
  /\ call' = Returned(call, extract_odds_from_api_response(call.odds, call.sport))
  /\ UNCHANGED callFrame

InitCalls == InitFrame({"mixed"}) /\ call \in CallInputs

NextCalls ==
  \/ CallParseScores
  \/ CallIsFavoriteTrailing
  \/ CallParseMatchTime
  \/ CallExtractOdds

SpecCalls == InitCalls /\ [][NextCalls]_vars

TypeOK ==
  /\ nextId \in 1..20
  /\ now \in 0..(MaxTime + 1)
  /\ pollPc \in {"upcoming", "inplay", "post", "sleep", "backoff"}
  /\ budget \in 0..(MaxBatch + 1)
  /\ inflight \in BOOLEAN
  /\ running \in BOOLEAN

\* ------------------------------------------------------------------------
\* Properties
\* ------------------------------------------------------------------------
ItemOps == {"upcoming", "inplay"}

\* the odds the extractor finds in an item's payload
Extracted(item, sport) ==
  IF Falsy(item.odds) THEN NoOdds3
  ELSE extract_odds_from_api_response(item.odds, sport)

\* both prices found, and neither equal to the placeholder price
UsableOdds(item, sport) ==
  /\ Extracted(item, sport).home \notin {NoneV, SENTINEL_ODDS}
  /\ Extracted(item, sport).away \notin {NoneV, SENTINEL_ODDS}

SamePreMatch(r, q) ==
  /\ q.pre_match_home_odds = r.pre_match_home_odds
  /\ q.pre_match_away_odds = r.pre_match_away_odds
  /\ q.pre_match_draw_odds = r.pre_match_draw_odds
  /\ q.pre_match_favorite = r.pre_match_favorite

SameHalftimeOdds(r, q) ==
  /\ q.halftime_home_odds = r.halftime_home_odds
  /\ q.halftime_away_odds = r.halftime_away_odds
  /\ q.halftime_draw_odds = r.halftime_draw_odds

\* C1: the table never holds two rows with the same event_id; a step never
\* changes the event_id of a row; and processing an item whose event id
\* already has a row adds no row. Checked with the polling loop and a forced
\* update running side by side, every item at statement granularity.
C1_OneRowPerEvent ==
  [][ /\ \A r1, r2 \in matches' : r1.event_id = r2.event_id => r1 = r2
      /\ \A r \in matches : \A q \in matches' :
           q.id = r.id => q.event_id = r.event_id
      /\ (last'.op \in ItemOps /\ Lookup(matches, last'.item.id) # {}) =>
           {q.id : q \in matches'} \subseteq {r.id : r \in matches} ]_vars

\* an item has just been processed for an event id that already had a row
C1_Witness ==
  /\ last.op \in ItemOps
  /\ last.out \in {"exists", "updated", "refreshed"}
  /\ Cardinality(Lookup(matches, last.item.id)) = 1

\* C2 (as stated): no (row, kind) is delivered to the same recipient in two
\* different passes of the notification loop.
C2_AtMostOnce == sentTo.twice = {}

\* C3 (as stated): once send_notification has run its delivery loop for a
\* halftime_trailing notification and returned, whatever happened on the
\* way, the row's halftime_notification_sent is true and the row is not
\* selected again.
C3_FlagAfterAttempt ==
  (/\ last.kind = "halftime_trailing"
   /\ \/ last.op = "dispatch" /\ last.out = "log_failed"
      \/ last.op = "mark")
  => \A r \in matches :
       r.id = last.mid =>
         /\ r.halftime_notification_sent
         /\ r \notin HalftimeMatches(matches, AllSports)

\* C4: no step turns start_notification_sent or halftime_notification_sent
\* of a row from true to false.
C4_StickyFlags ==
  [][ \A r \in matches : \A q \in matches' :
        q.id = r.id =>
          /\ r.start_notification_sent => q.start_notification_sent
          /\ r.halftime_notification_sent => q.halftime_notification_sent ]_vars

\* the halftime kind has just been marked on a row whose match_start flag
\* was already true, and the row keeps both flags
C4_Witness ==
  /\ last.op = "mark" /\ last.out = "marked" /\ last.kind = "halftime_trailing"
  /\ \E r \in matches :
       /\ r.id = last.mid
       /\ r.start_notification_sent /\ r.halftime_notification_sent

\* C5 (as stated): a commit made by the polling loop for an upcoming or
\* in-play item leaves the pre-match odds and favorite of every row whose
\* status is no longer scheduled as they were.
C5_PreMatchFrozen ==
  [][ (svc.step = 2 /\ svc'.step = 0) =>
        \A r \in matches : \A q \in matches' :
          (q.id = r.id /\ r.status # "scheduled") => SamePreMatch(r, q) ]_vars

\* C6 (as stated): after an upcoming item with usable odds has been
\* processed, a scheduled row of that event carries the pre-match odds,
\* favorite and start time derived from that item.
C6_Refreshed ==
  (/\ last.op = "upcoming" /\ last.item.id # ""
   /\ UsableOdds(last.item, last.sport))
  => \A r \in Lookup(matches, last.item.id) :
       r.status = "scheduled" =>
         LET ex == Extracted(last.item, last.sport)
         IN  /\ r.pre_match_home_odds = ex.home
             /\ r.pre_match_away_odds = ex.away
             /\ r.pre_match_favorite = get_pre_match_favorite(ex.home, ex.away)
             /\ last.item.time # NoneV => r.start_time = last.item.time

ScheduledRowFor(tbl, tbl2, event_id) ==
  /\ tbl \subseteq tbl2
  /\ Cardinality(tbl2 \ tbl) = 1
  /\ \A q \in tbl2 \ tbl :
       /\ q.event_id = event_id
       /\ q.status = "scheduled"
       /\ ~q.start_notification_sent
       /\ ~q.favorite_trailing_at_halftime

\* C7 (as stated): an upcoming item of an untracked event creates a row if
\* and only if the extractor finds both a home and an away price; the row is
\* scheduled with both flags false; otherwise the table is unchanged.
C7_CreateIffExtracted ==
  [][ (/\ last'.op = "upcoming" /\ last'.item.id # ""
       /\ Lookup(matches, last'.item.id) = {})
      => IF /\ Extracted(last'.item, last'.sport).home # NoneV
            /\ Extracted(last'.item, last'.sport).away # NoneV
           THEN ScheduledRowFor(matches, matches', last'.item.id)
           ELSE matches' = matches ]_vars

\* C7 (amended): an upcoming item of an untracked event creates a row if and
\* only if both prices are found, neither equals 999.0, the item's home,
\* away and league fields are objects and the insert commits; the row is
\* scheduled with both flags false; otherwise the table is unchanged.
C7_CreateIffUsable ==
  [][ (/\ last'.op = "upcoming" /\ last'.item.id # ""
       /\ Lookup(matches, last'.item.id) = {})
      => IF /\ UsableOdds(last'.item, last'.sport)
            /\ last'.item.names_ok
            /\ last'.out # "commit_failed"
           THEN ScheduledRowFor(matches, matches', last'.item.id)
           ELSE matches' = matches ]_vars

\* an upcoming item has just created the row of its event
C7_Witness ==
  /\ last.op = "upcoming" /\ last.out = "created"
  /\ \E r \in Lookup(matches, last.item.id) :
       r.id = last.mid /\ r.status = "scheduled" /\ r.id \notin synth

SynthesizedRowFor(tbl, tbl2, sport, item) ==
  \E q \in tbl2 \ tbl :
    /\ q.event_id = item.id
    /\ q.status \in {"live", "halftime"}
    /\ q.pre_match_home_odds = Extracted(item, sport).home
    /\ q.pre_match_away_odds = Extracted(item, sport).away
    /\ q.pre_match_favorite =
         get_pre_match_favorite(Extracted(item, sport).home,
                                Extracted(item, sport).away)
    /\ q.start_notification_sent
    /\ q.favorite_trailing_at_halftime =
         (/\ parse_match_time(sport, item.ss, item.TM, item.TS).is_halftime
          /\ FavoriteBehind(q.pre_match_favorite, q.current_score_home,
                            q.current_score_away))

\* no row synthesized from in-play data is selected for match_start
NeverStartSelected(tbl, t, q_, ids) ==
  \A r \in tbl :
    r.id \in ids =>
      /\ r \notin StartingMatches(tbl, t, AllSports)
      /\ \A k \in 1..Len(q_) : ~(q_[k].id = r.id /\ q_[k].kind = "match_start")

\* C8 (as stated): an in-play item of an untracked event with usable odds
\* creates a live or halftime row whose pre-match odds and favorite are the
\* live ones, with start_notification_sent true and the trailing flag equal
\* to (is_halftime and favorite behind); no such row is ever selected for a
\* match_start notification.
C8_Synthesized ==
  [][ /\ (/\ last'.op = "inplay" /\ last'.item.id # ""
          /\ Lookup(matches, last'.item.id) = {}
          /\ UsableOdds(last'.item, last'.sport))
         => SynthesizedRowFor(matches, matches', last'.sport, last'.item)
      /\ NeverStartSelected(matches', now', queue', synth') ]_vars

\* an in-play item has just synthesized a halftime row with the favorite
\* behind
C8_Witness ==
  /\ last.op = "inplay" /\ last.out = "created"
  /\ \E r \in matches :
       /\ r.id = last.mid /\ r.id \in synth
       /\ r.status = "halftime" /\ r.favorite_trailing_at_halftime

\* C9 (as stated): once a row in the halftime phase with the favorite
\* trailing holds a halftime odds snapshot, no step changes the snapshot.
C9_FirstSnapshotWins ==
  [][ \A r \in matches : \A q \in matches' :
        (/\ q.id = r.id
         /\ r.status = "halftime" /\ r.favorite_trailing_at_halftime
         /\ r.halftime_home_odds # NoneV)
        => SameHalftimeOdds(r, q) ]_vars

\* C10 (as stated): no step turns favorite_trailing_at_halftime of a row
\* from true to false.
C10_TrailingSticky ==
  [][ \A r \in matches : \A q \in matches' :
        (q.id = r.id /\ r.favorite_trailing_at_halftime)
        => q.favorite_trailing_at_halftime ]_vars

\* the two integers a score payload is coerced to: an absent field of a
\* structured pair counts as 0 and a string goes through the Score Parser;
\* <<>> when the payload cannot be coerced
CoercedScores(ss) ==
  IF ss.t = "dict" THEN
    IF {ss.home, ss.away} \cap {BadV, InfV} = {}
    THEN <<IntOr0(ss.home), IntOr0(ss.away)>> ELSE <<>>
  ELSE IF ss.t = "str" THEN parse_scores(ss)
  ELSE <<>>

\* C11: for a favorite and a score payload that is coerced to two integers,
\* is_favorite_trailing returns true exactly when the favorite's score is
\* strictly below the other side's (so never on level scores); for a payload
\* that cannot be coerced it returns false; it always returns.
C11_TrailingContract ==
  (call.fn = "is_favorite_trailing" /\ call.done) =>
    /\ call.out \in BOOLEAN
    /\ IF CoercedScores(call.ss) = <<>> THEN call.out = FALSE
       ELSE call.out =
              (\/ /\ call.favorite = "home"
                  /\ CoercedScores(call.ss)[1] < CoercedScores(call.ss)[2]
               \/ /\ call.favorite = "away"
                  /\ CoercedScores(call.ss)[2] < CoercedScores(call.ss)[1])

\* the detector has returned true for the home favorite at 1-2
C11_Witness ==
  /\ call.fn = "is_favorite_trailing" /\ call.done
  /\ call.favorite = "home" /\ call.ss = ScoreDict(1, 2)
  /\ call.out = TRUE

\* the pairs of non-negative integers a string spells around one '-', ':'
\* or blank, with optional blanks around each number
IsDigits(w) == w # <<>> /\ \A i \in 1..Len(w) : w[i] \in Digits
SpelledPairs(w) ==
  {<<DigitsVal(Strip(SubSeq(w, 1, k - 1))), DigitsVal(Strip(SubSeq(w, k + 1, Len(w))))>> :
     k \in {j \in 1..Len(w) : /\ w[j] \in {"-", ":", " "}
                              /\ IsDigits(Strip(SubSeq(w, 1, j - 1)))
                              /\ IsDigits(Strip(SubSeq(w, j + 1, Len(w))))}}

\* what the Score Parser is to return
ExpectedScores(ss) ==
  IF ss.t = "dict" THEN
    IF {ss.home, ss.away} \cap {BadV, InfV} = {}
    THEN <<IntOr0(ss.home), IntOr0(ss.away)>> ELSE <<0, 0>>
  ELSE IF ss.t = "str" /\ SpelledPairs(ss.s) # {}
    THEN CHOOSE pr \in SpelledPairs(ss.s) : TRUE
  ELSE <<0, 0>>

\* C12 (as stated): parse_scores always returns a pair of integers: the two
\* integers of a structured pair or of a string that spells two integers
\* around '-', ':' or a blank, and (0, 0) for every other input.
C12_ParseScoresTotal ==
  (call.fn = "parse_scores" /\ call.done) => call.out = ExpectedScores(call.ss)

\* the minute the time fields stand for: 0 when either cannot be parsed
ExpectedMinute(TM, TS) ==
  IF TM \in Nat /\ TS \in Nat \cup {NoneV} THEN TM ELSE 0

\* the phase the classifier is to report for an elapsed minute
ExpectedPhase(sport, minute) ==
  IF sport = "basketball" THEN
    IF minute < 22 THEN TimeInfo("first_half", FALSE)
    ELSE IF minute <= 26 THEN TimeInfo("halftime", TRUE)
    ELSE IF minute <= 45 THEN TimeInfo("third_quarter", FALSE)
    ELSE TimeInfo("fourth_quarter", FALSE)
  ELSE
    IF minute < 28 THEN TimeInfo("first_half", FALSE)
    ELSE IF minute <= 32 THEN TimeInfo("halftime", TRUE)
    ELSE TimeInfo("second_half", FALSE)

\* C14 (as stated): for basketball and handball parse_match_time returns the
\* phase of the elapsed minute (basketball: first_half below 22, halftime
\* 22..26, third_quarter 27..45, fourth_quarter from 46; handball:
\* first_half below 28, halftime 28..32, second_half above 32), taking time
\* fields that cannot be parsed as minute 0, and never raises.
C14_PhaseByMinute ==
  (/\ call.fn = "parse_match_time" /\ call.done
   /\ call.sport \in {"basketball", "handball"})
  => call.out = ExpectedPhase(call.sport, ExpectedMinute(call.TM, call.TS))

\* C15 (as stated): for tennis parse_match_time reports is_halftime exactly
\* when the Score Parser reads two integers with a sum of at least 1 from
\* the score field, and its result is the one it gives without time fields.
C15_TennisFirstSet ==
  (call.fn = "parse_match_time" /\ call.done /\ call.sport = "tennis")
  => /\ call.out.is_halftime =
          (/\ parse_scores(call.ss) # Raised
           /\ parse_scores(call.ss)[1] + parse_scores(call.ss)[2] >= 1)
     /\ call.out = parse_match_time("tennis", call.ss, NoneV, NoneV)

\* C13: every row's pre_match_favorite is home when its pre-match home odds
\* are below its pre-match away odds and away otherwise, equal odds
\* included. Checked with the polling loop and a forced update running side
\* by side, where the refresh of a row is reachable.
C13_FavoriteFromOdds ==
  \A r \in matches :
    r.pre_match_favorite =
      (IF r.pre_match_home_odds < r.pre_match_away_odds THEN "home" ELSE "away")

\* a row has just been created from equal odds, with away as its favorite
C13_Witness ==
  \E r \in matches : /\ r.pre_match_home_odds = r.pre_match_away_odds
                     /\ r.pre_match_favorite = "away"
                     /\ last.op \in ItemOps /\ last.out = "created"
                     /\ last.mid = r.id

\* C16: tennis never carries draw odds: the extractor returns no draw for
\* a tennis payload, whatever entries the payload holds, and both draw
\* columns of every tennis row are NULL.
C16_TennisNoDraw ==
  /\ \A r \in matches :
       r.sport = "tennis" =>
         r.pre_match_draw_odds = NoneV /\ r.halftime_draw_odds = NoneV
  /\ (last.op \in ItemOps /\ last.sport = "tennis") =>
       extract_odds_from_api_response(last.item.odds, "tennis").draw = NoneV

\* a tennis payload with a third entry has just been stored at halftime
C16_Witness ==
  /\ last.op = "inplay" /\ last.sport = "tennis"
  /\ last.out \in {"updated", "created"}
  /\ Len(last.item.odds.v) > 2 /\ last.item.odds.v[3] \notin {NoneV, BadV}
  /\ \E r \in matches : /\ r.id = last.mid
                        /\ r.halftime_home_odds # NoneV
                        /\ r.halftime_draw_odds = NoneV

\* an item that cannot be processed: a field is missing, has the wrong type
\* or cannot be converted
FailureOuts == {"no_odds", "no_extract", "sentinel", "bad_names", "error", "abort"}

\* C17 (as stated): a processing failure on one item of a batch skips that
\* item only: no row changes, and the loop stays in the same batch of the
\* same sport, from where the other items and the remaining batches follow.
C17_FailureSkipsItemOnly ==
  [][(last'.op \in ItemOps /\ last'.out \in FailureOuts)
       => /\ matches' = matches
          /\ pollPc' = pollPc /\ sportIdx' = sportIdx]_vars

\* C18: when the commit of an item's insert or update fails, the table is
\* as it was before the item, rows of earlier items included, and the loop
\* goes on in the same batch with one item less to take.
C18_CommitFailureRollsBackItem ==
  [][(last'.op \in ItemOps /\ last'.out = "commit_failed")
       => /\ matches' = matches
          /\ nextId' = nextId
          /\ pollPc' = pollPc /\ sportIdx' = sportIdx
          /\ budget' = budget - 1]_vars

\* the commit of an update of a stored row has just failed
C18_Witness ==
  /\ last.op \in ItemOps /\ last.out = "commit_failed"
  /\ \E r \in matches : r.event_id = last.item.id

\* C19: a fetch that raises or returns no list leaves the table as it is
\* and the batch empty: the loop is still at that batch, with no item to
\* take, so its next step is the following fetch.
C19_FetchFailureEmptyBatch ==
  [][last'.op = "fetch_failed"
       => /\ matches' = matches
          /\ nextId' = nextId
          /\ pollPc' = pollPc /\ sportIdx' = sportIdx
          /\ budget' = 0]_vars

\* the upcoming fetch of a sport has just failed with rows in the table
C19_Witness ==
  /\ last.op = "fetch_failed" /\ last.kind = "upcoming"
  /\ matches # {}
  /\ pollPc = "upcoming" /\ budget = 0

CycleStarts == last'.op \in {"sleep", "backoff"}

\* C21 (as stated): once a stop signal has been received no new cycle is
\* started and the service eventually reaches its shutdown state; before
\* any stop signal the loop is in no terminal state.
C21_StopsOnSignal ==
  /\ [][~running => ~CycleStarts]_vars
  /\ (~running) ~> InShutdown
  /\ [](running => ~InShutdown)

Selected(q_, kind) == {q_[k].id : k \in {j \in 1..Len(q_) : q_[j].kind = kind}}

\* C23 (as stated): the match_start part of a call of
\* get_matches_for_notification returns exactly the scheduled rows with
\* start_notification_sent false, a start time 25 to 35 minutes ahead and a
\* sport with an active entitled subscriber.
C23_StartSelection ==
  [][last'.op = "select"
       => /\ last'.out = "returned"
          /\ Selected(queue', "match_start") =
               {r.id : r \in {q \in matches :
                                /\ q.status = "scheduled"
                                /\ ~q.start_notification_sent
                                /\ q.start_time - now >= 25
                                /\ q.start_time - now <= 35
                                /\ q.sport \in audience}}]_vars

\* C24 (as stated): the halftime_trailing part of a call of
\* get_matches_for_notification returns exactly the rows with status
\* halftime, favorite_trailing_at_halftime true, halftime_notification_sent
\* false and a sport with an active entitled subscriber; a row whose flag is
\* set or whose favorite is not trailing is never returned.
C24_HalftimeSelection ==
  [][last'.op = "select"
       => /\ Selected(queue', "halftime_trailing") =
               {r.id : r \in {q \in matches :
                                /\ q.status = "halftime"
                                /\ q.favorite_trailing_at_halftime
                                /\ ~q.halftime_notification_sent
                                /\ q.sport \in audience}}
          /\ \A r \in matches :
               (r.halftime_notification_sent \/ ~r.favorite_trailing_at_halftime)
                 => r.id \notin Selected(queue', "halftime_trailing")]_vars

\* C25: with two runs of fetch_and_update_matches interleaved at the level
\* of their queries and commits there is never more than one row for an
\* event id, and an insert rejected for a duplicate key leaves the table as
\* it was and the run that made it in the same batch, with its remaining
\* items still to take.
C25_ConcurrentRuns ==
  [][ /\ \A r1, r2 \in matches' : r1.event_id = r2.event_id => r1 = r2
      /\ (last'.op \in ItemOps /\ last'.out = "duplicate_key")
           => /\ matches' = matches
              /\ nextId' = nextId
              /\ adm' # adm
                   => /\ adm'.pc = adm.pc /\ adm'.sportIdx = adm.sportIdx
                      /\ adm'.budget = adm.budget - 1
              /\ svc' # svc
                   => /\ pollPc' = pollPc /\ sportIdx' = sportIdx
                      /\ budget' = budget - 1 ]_vars

\* the insert of one run has just been rejected because the other run had
\* inserted the event in between, and the run is still in its batch
C25_Witness ==
  /\ last.op \in ItemOps /\ last.out = "duplicate_key"
  /\ Cardinality(Lookup(matches, last.item.id)) = 1
  /\ pollPc \in {"upcoming", "inplay"}
  /\ adm.pc \in {"upcoming", "inplay"}

\* C26 (as stated): the trailing test is made only on the observation that
\* moves a row into halftime: a row that is in halftime with
\* favorite_trailing_at_halftime false keeps the flag false on every later
\* observation that finds it still in halftime.
C26_TrailingOnlyOnEntry ==
  [][last'.op = "inplay"
       => \A r \in matches : \A q \in matches' :
            (/\ q.id = r.id
             /\ r.status = "halftime" /\ q.status = "halftime"
             /\ ~r.favorite_trailing_at_halftime)
              => ~q.favorite_trailing_at_halftime]_vars

\* C27 (as stated): a row has a halftime odds snapshot only if its
\* favorite_trailing_at_halftime is true.
C27_SnapshotOnlyWhenTrailing ==
  \A r \in matches :
    (r.halftime_home_odds # NoneV \/ r.halftime_away_odds # NoneV)
      => r.favorite_trailing_at_halftime

PhaseRank(pc) == IF pc = "upcoming" THEN 1 ELSE IF pc = "inplay" THEN 2 ELSE 3

\* within a cycle the loop never goes back to an earlier sport, nor from a
\* sport's in-play list to its upcoming list, and every item it takes is of
\* the list and the sport it is at
InOrder ==
  /\ last'.op \notin {"sleep", "backoff"}
       => \/ sportIdx' > sportIdx
          \/ sportIdx' = sportIdx /\ PhaseRank(pollPc') >= PhaseRank(pollPc)
  /\ last'.op \in ItemOps
       => last'.op = pollPc /\ last'.sport = monitored_sports[sportIdx]

\* the upcoming items taken in this cycle for an event that had no row
UpcomingOf(event_id) == {u \in cycleUp : u.item.id = event_id}

\* the event has one row, with the pre-match odds of the upcoming payload
\* and the start notification still due
RowFromUpcoming(tbl, item, sport) ==
  \E q \in tbl :
    /\ Lookup(tbl, item.id) = {q}
    /\ q.pre_match_home_odds = Extracted(item, sport).home
    /\ q.pre_match_away_odds = Extracted(item, sport).away
    /\ ~q.start_notification_sent

\* C29 (as stated): sports are processed in configured order, upcoming
\* before in-play; an untracked event that is in both lists of one cycle
\* has, after its in-play item, a single row with the pre-match odds of the
\* upcoming payload, start_notification_sent false and status live or
\* halftime.
C29_BothListsOneCycle ==
  [][ /\ InOrder
      /\ (last'.op = "inplay" /\ UpcomingOf(last'.item.id) # {})
           => \A u \in UpcomingOf(last'.item.id) :
                /\ RowFromUpcoming(matches', u.item, last'.sport)
                /\ \A q \in Lookup(matches', last'.item.id) :
                     q.status \in {"live", "halftime"} ]_vars

\* C29 (amended): sports are processed in configured order, upcoming before
\* in-play; an event has at most one row; an untracked event whose upcoming
\* item created its row and whose in-play item is taken in the same cycle
\* has, after the in-play item, that single row with the pre-match odds of
\* the upcoming payload and start_notification_sent false; its status is
\* live or halftime when the in-play update is committed and is left as it
\* was when it is not.
C29_BothListsOneCycle_amended ==
  [][ /\ InOrder
      /\ \A r1, r2 \in matches' : r1.event_id = r2.event_id => r1 = r2
      /\ last'.op = "inplay"
           => \A u \in UpcomingOf(last'.item.id) :
                u.out = "created"
                  => /\ RowFromUpcoming(matches', u.item, last'.sport)
                     /\ \A q \in Lookup(matches', last'.item.id) :
                          IF last'.out = "updated"
                          THEN q.status \in {"live", "halftime"}
                          ELSE \A r \in Lookup(matches, last'.item.id) :
                                 q.status = r.status ]_vars

\* the row that the upcoming item of this cycle created has just been taken
\* to halftime by the in-play item of the same cycle, whose odds differ
\* from the pre-match odds the row keeps
C29_Witness ==
  /\ last.op = "inplay" /\ last.out = "updated"
  /\ \E u \in UpcomingOf(last.item.id) :
       /\ u.out = "created"
       /\ RowFromUpcoming(matches, u.item, last.sport)
       /\ Extracted(last.item, last.sport).home # Extracted(u.item, last.sport).home
  /\ \E r \in matches : r.id = last.mid /\ r.status = "halftime"

\* C30: the sleep at the end of a cycle that did not raise lasts
\* max(1, base - processing_time) seconds, base being 15 when a row is live
\* or in halftime and 60 otherwise; the sleep after a cycle that raised
\* lasts 60 seconds; so no cycle starts without a sleep of at least one
\* second before it.
C30_AdaptiveSleep ==
  [][ /\ last'.op = "sleep"
           => LET base == IF \E r \in matches : r.status \in {"live", "halftime"}
                          THEN 15 ELSE 60
              IN  last'.slept = IF base - last'.took > 1 THEN base - last'.took ELSE 1
      /\ last'.op = "backoff" => last'.slept = 60
      /\ CycleStarts => last'.slept >= 1 ]_vars

\* a cycle that took longer than the short interval while a row was live
\* has just been followed by the minimum sleep
C30_Witness ==
  /\ last.op = "sleep"
  /\ last.took > FAST_SLEEP /\ last.slept = MIN_SLEEP
  /\ \E r \in matches : r.status \in {"live", "halftime"}

\* C31 (as stated): every fetch returns, a failed fetch leaves its batch
\* empty, and every cycle reaches the end of its work, from where its sleep
\* follows, whether or not the provider answers.
C31_FetchBounded ==
  /\ InFetch ~> ~InFetch
  /\ [][last'.op = "fetch_failed" => budget' = 0 /\ matches' = matches]_vars
  /\ []<>(pollPc \in {"post", "sleep", "backoff"})

\* the payload with every price that is not numeric taken out of its entry
WithoutBad(odds_data) ==
  [odds_data EXCEPT !.v = [i \in 1..Len(odds_data.v) |->
                             IF odds_data.v[i] = BadV THEN NoneV ELSE odds_data.v[i]]]

\* C32 (as stated): a price that cannot be converted to a number counts as
\* absent for its outcome only: the extractor returns what it returns for
\* the same payload without that price, and no exception leaves it.
C32_CoercionFailureIsAbsent ==
  (call.fn = "extract_odds_from_api_response" /\ call.done)
    => /\ call.out = extract_odds_from_api_response(WithoutBad(call.odds), call.sport)
       /\ call.out # OddsError

\* a market payload in which every entry has a price and a token of home,
\* away or draw, and no token is carried by two entries
PlainMarket(odds_data) ==
  /\ "tok" \in DOMAIN odds_data
  /\ \A i \in 1..Len(odds_data.v) :
       odds_data.v[i] \notin {NoneV, BadV} /\ odds_data.tok[i] # ""
  /\ \A i, j \in 1..Len(odds_data.v) : odds_data.tok[i] = odds_data.tok[j] => i = j

\* the side of the result that a token names
TokenSide(token) ==
  IF token = "1" THEN "home" ELSE IF token = "2" THEN "away" ELSE "draw"

\* C33 (as stated): in a resolved basketball or handball market the price
\* of an outcome that carries the token of home, away or draw is returned
\* for that side, wherever the outcome stands in the list.
C33_TokenBeforePosition ==
  (/\ call.fn = "extract_odds_from_api_response" /\ call.done
   /\ call.sport \in {"basketball", "handball"}
   /\ PlainMarket(call.odds))
    => \A i \in 1..Len(call.odds.v) :
         call.odds.tok[i] # "" => call.out[TokenSide(call.odds.tok[i])] = call.odds.v[i]

\* the numeric values under 'odds' keys of a dict at most `levels` levels
\* below data, in encounter order
RECURSIVE ScanWithin(_, _), ScanKidsWithin(_, _, _)
ScanWithin(data, levels) ==
  FoundOdds(data.odds)
    \o (IF levels = 0 THEN <<>> ELSE ScanKidsWithin(data.kids, 1, levels - 1))
ScanKidsWithin(kids, k, levels) ==
  IF k > Len(kids) THEN <<>>
  ELSE ScanWithin(kids[k], levels) \o ScanKidsWithin(kids, k + 1, levels)

\* what a scan of four levels finds in a payload
ScanFour(odds_data) ==
  IF "root" \in DOMAIN odds_data THEN ScanWithin(odds_data.root, 4)
  ELSE FoundOdds(odds_data.v)

\* home or away is unresolved after the list step and the known paths
StillIncomplete(odds_data, sport) ==
  IF odds_data.t = "list"
  THEN \/ extract_odds_from_api_response(odds_data, sport).home = NoneV
       \/ extract_odds_from_api_response(odds_data, sport).away = NoneV
  ELSE \/ DictStrategy(odds_data, sport) = OddsError
       \/ DictStrategy(odds_data, sport).home = NoneV
       \/ DictStrategy(odds_data, sport).away = NoneV

\* C34 (as stated): when home or away is unresolved after the list step
\* and the known paths, the result is made of the first two numeric values
\* (three, except for tennis) that a scan of four levels finds, in encounter
\* order; no returned value comes from deeper in the payload.
C34_FallbackScan ==
  (call.fn = "extract_odds_from_api_response" /\ call.done)
    => /\ (StillIncomplete(call.odds, call.sport) /\ Len(ScanFour(call.odds)) >= 2)
           => /\ call.out.home = ScanFour(call.odds)[1]
              /\ call.out.away = ScanFour(call.odds)[2]
              /\ (call.sport # "tennis" /\ Len(ScanFour(call.odds)) > 2)
                   => call.out.draw = ScanFour(call.odds)[3]
       /\ "root" \in DOMAIN call.odds
           => \A side \in {"home", "away", "draw"} :
                \/ call.out[side] = NoneV
                \/ \E i \in 1..Len(ScanFour(call.odds)) : call.out[side] = ScanFour(call.odds)[i]

\* C35 (as stated): every send_notification attempt appends exactly one
\* NotificationLog row, whose sent and failed counters add up to the number
\* of recipients and whose success flag tells whether a delivery succeeded;
\* no step removes a row of the log.
C35_OneLogRowPerAttempt ==
  /\ [][last'.op = "dispatch"
          => /\ Len(last'.added) = 1
             /\ last'.added[1].sent_count + last'.added[1].failed_count
                  = Cardinality(Recipients(last'.sport, audience))
             /\ last'.added[1].success <=> last'.added[1].sent_count > 0
             /\ logs' = logs \cup {last'.mid}]_vars
  /\ [][logs \subseteq logs']_vars

\* C36: every status that a step gives to a stored row is live or
\* halftime, a row that the tracker inserts is scheduled, live or halftime,
\* no step removes a row that the tracker created, and so no row of the
\* table is finished, completed or cancelled or back in scheduled.
C36_StatusLifecycle ==
  /\ [][\A q \in matches' :
          IF \E r \in matches : r.id = q.id
          THEN \A r \in matches :
                 (r.id = q.id /\ r.status # q.status) => q.status \in {"live", "halftime"}
          ELSE q.status \in {"scheduled", "live", "halftime"}]_vars
  /\ [][\A r \in matches : \E q \in matches' : q.id = r.id]_vars

\* a cleanup run has ended with a row in the table that an in-play
\* observation took from scheduled to halftime
C36_Witness ==
  /\ last.op = "cleanup"
  /\ \E r \in matches : r.status = "halftime" /\ r.id \notin synth

\* C37 (as stated): the assignments of an in-play item whose processing
\* raised part-way are never written: the stored row of such an item stays
\* as it is, or is written by a later item of the event with what that item
\* gives on the stored row.
C37_FailedItemNotPersisted ==
  [][\A d \in dirty : \A q \in matches' :
       q.id = d.old.id
         => \/ q \in matches
            \/ /\ last'.op = "inplay" /\ last'.out = "updated" /\ last'.mid = d.old.id
               /\ \E r \in matches :
                     /\ r.id = d.old.id
                     /\ q = [InplayUpdated(r, last'.sport, last'.item)
                               EXCEPT !.updated_at = now]]_vars

\* C38 (as stated): whichever way the steps of the polling loop and of a
\* forced update interleave, a step of either run leaves the pre-match odds
\* and favorite of a live or halftime row as they were, and leaves
\* favorite_trailing_at_halftime true where it was true.
C38_InterleavedRuns ==
  [][ (svc' # svc \/ adm' # adm) =>
        \A r \in matches : \A q \in matches' :
          q.id = r.id =>
            /\ r.status \in {"live", "halftime"} => SamePreMatch(r, q)
            /\ r.favorite_trailing_at_halftime => q.favorite_trailing_at_halftime ]_vars

\* the events of the feeds
EventIds == {"t1", "b1", "h1"}

\* the row of the event has the trailing flag, no halftime notification yet
\* and a sport with an entitled audience
AwaitsHalftimeNotice(event_id) ==
  \E r \in matches : /\ r.event_id = event_id
                      /\ r.favorite_trailing_at_halftime
                      /\ ~r.halftime_notification_sent
                      /\ r.sport \in audience

\* send_notification has just been called for the halftime_trailing kind of
\* the event's row
HalftimeNoticeDispatched(event_id) ==
  /\ last.op = "dispatch" /\ last.kind = "halftime_trailing"
  /\ \E r \in matches : r.event_id = event_id /\ r.id = last.mid

\* C39 (as stated): with the notification loop running, a row that has the
\* trailing flag and no halftime notification, in a sport with an audience,
\* leads to a halftime_trailing dispatch for its event, whatever the polling
\* loop does to the row in the meantime.
C39_TrailingLeadsToNotice ==
  \A event_id \in EventIds :
    AwaitsHalftimeNotice(event_id) ~> HalftimeNoticeDispatched(event_id)

====
